---- MODULE Spec2Model ----
(***************************************************************************)
(* Search-and-discovery ranking core of SearchMyFiles:                     *)
(*   AdvancedSearchEngine  (search-discovery/advanced-search-engine.py)    *)
(*   AIEnhancedSearch      (scripts/ml-ai/ai-enhanced-search.py)           *)
(*   DiscoveryEngine       (search-discovery/discovery-features.py)        *)
(*                                                                         *)
(* Scores are fixed-point numbers in thousandths (0.4 is 400).  A text is  *)
(* a sequence of words (what str.split() returns), a word a sequence of    *)
(* one-character strings.  A document content is a pair (head, tail): its  *)
(* first 100 characters and the rest.  A timestamp is the age in days.     *)
(***************************************************************************)
EXTENDS Integers, Sequences, FiniteSets, TLC

VARIABLES
  data_dir,          \* documents of the *.jsonl files under data_dir
  vector_db,         \* entries of the "documents" collection of the vector index
  search_history,    \* AdvancedSearchEngine.search_history
  user_preferences,  \* AdvancedSearchEngine.user_preferences
  clock,             \* datetime.now() of the records, in ticks
  last,              \* observation of the last AdvancedSearchEngine call
  inflight,          \* the search() call that is between its two loads
  ai_rag,            \* AIEnhancedSearch.rag_engine: what its search returns
  ai_cache_size,     \* AIEnhancedSearch.config["search"]["cache_size"]
  query_cache,       \* AIEnhancedSearch.query_cache (insertion-ordered dict)
  ai_history,        \* AIEnhancedSearch.search_history
  ai_last,           \* observation of the last AIEnhancedSearch call
  content_items,     \* DiscoveryEngine.content_items
  content_graph,     \* DiscoveryEngine.content_graph (nodes and edges)
  clusters,          \* DiscoveryEngine.clusters
  discovery_engine,  \* whether the global discovery_engine holds an engine
  disc_last,         \* observation of the last DiscoveryEngine call
  source_tree,       \* files under IngestionConfig.source_path, in walk order
  ingest_documents,  \* NetworkDocumentIngestion.documents
  processing_stats,  \* NetworkDocumentIngestion.processing_stats
  index_db,          \* hashes of the rows of the documents table
  ingest_last,       \* observation of the last NetworkDocumentIngestion call
  recorders,         \* the threads inside search() and _record_search
  services,          \* ProductionManager.services
  service_statuses,  \* ProductionManager.service_statuses
  processes,         \* ProductionManager.processes
  running,           \* ProductionManager.running
  main_pc,           \* the position of main() of production_manager.py
  restarts           \* restarts the monitoring loop performed, per service

vars == <<data_dir, vector_db, search_history, user_preferences, clock,
          last, inflight, ai_rag, ai_cache_size, query_cache, ai_history,
          ai_last,
          content_items, content_graph, clusters, discovery_engine,
          disc_last, source_tree, ingest_documents, processing_stats, index_db,
          ingest_last, recorders, services, service_statuses, processes,
          running, main_pc, restarts>>

searchVars == <<data_dir, vector_db, search_history, user_preferences,
                clock, last, inflight>>
aiVars == <<ai_rag, ai_cache_size, query_cache, ai_history, ai_last>>
discVars == <<content_items, content_graph, clusters, discovery_engine,
             disc_last>>
\* the state of the ingestion and operations scripts
opsVars == <<source_tree, ingest_documents, processing_stats, index_db,
            ingest_last>>
\* the threads of concurrent searches
threadVars == <<recorders>>
\* the state of the production manager
managerVars == <<services, service_statuses, processes, running, main_pc,
                restarts>>
procVars == <<threadVars, managerVars>>

----------------------------------------------------------------------------
(* Bounds of the model *)

MaxSearches == 1        \* searches per behaviour of Spec and SpecPers
MaxHistSearches == 4    \* searches per behaviour of SpecHist
MaxAISearches == 102    \* intelligent searches per behaviour of SpecAI

----------------------------------------------------------------------------
(* Generic helpers *)

Max(a, b) == IF a >= b THEN a ELSE b
Min(a, b) == IF a <= b THEN a ELSE b

Range(s) == {s[i] : i \in 1..Len(s)}

\* dict.get(key, default)
Get(d, key, default) == IF key \in DOMAIN d THEN d[key] ELSE default

\* Python's s[a:b] for 0 <= a, 0 <= b
Slice(s, a, b) == SubSeq(s, a + 1, Min(b, Len(s)))

\* Python's s[-n:] for n >= 0; -0 is 0, so s[-0:] is s[0:]
LastN(s, n) ==
  IF n = 0 THEN s
  ELSE SubSeq(s, Max(1, Len(s) - n + 1), Len(s))

RECURSIVE SeqSum(_)
SeqSum(s) == IF s = <<>> THEN 0 ELSE Head(s) + SeqSum(Tail(s))

RECURSIVE Flatten(_)
Flatten(ss) == IF ss = <<>> THEN <<>> ELSE Head(ss) \o Flatten(Tail(ss))

\* list.sort(key=Key, reverse=True) and sorted(..., reverse=True): stable,
\* so elements of equal key keep the order they had in the list
SortDescBy(s, Key(_)) ==
  LET Before(j, i) ==
        Key(s[j]) > Key(s[i]) \/ (Key(s[j]) = Key(s[i]) /\ j < i)
      Place(i) == 1 + Cardinality({j \in 1..Len(s) : Before(j, i)})
  IN [n \in 1..Len(s) |-> s[CHOOSE i \in 1..Len(s) : Place(i) = n]]

\* ascending order of Key, stable
SortAscBy(s, Key(_)) ==
  LET Before(j, i) ==
        Key(s[j]) < Key(s[i]) \/ (Key(s[j]) = Key(s[i]) /\ j < i)
      Place(i) == 1 + Cardinality({j \in 1..Len(s) : Before(j, i)})
  IN [n \in 1..Len(s) |-> s[CHOOSE i \in 1..Len(s) : Place(i) = n]]

\* results.sort(key=lambda x: x.score, reverse=True)
SortDesc(s) == LET Score(r) == r.score IN SortDescBy(s, Score)

----------------------------------------------------------------------------
(* Text.  A Python str is a sequence of words; a word is an atom whose
   characters Chars gives. *)

Chars(w) ==
  CASE w = "ml" -> <<"m", "l">>
    [] w = "ML" -> <<"M", "L">>
    [] w = "m" -> <<"m">>
    [] w = "xml" -> <<"x", "m", "l">>
    [] w = "cat" -> <<"c", "a", "t">>
    [] w = "work" -> <<"w", "o", "r", "k">>
    [] w = "home" -> <<"h", "o", "m", "e">>
    [] OTHER -> <<w>>

\* str.lower() on one word
Lower(w) ==
  CASE w = "ML" -> "ml"
    [] OTHER -> w

\* text.lower().split()
LowerSplit(text) == [i \in 1..Len(text) |-> Lower(text[i])]

\* Python's `a in b` on the characters of two words
IsSubstr(a, b) ==
  LET ca == Chars(a)
      cb == Chars(b)
  IN \E i \in 0..(Len(cb) - Len(ca)) : SubSeq(cb, i + 1, i + Len(ca)) = ca

\* content[:100]
First100(content) == content.head

\* metadata values: a str, or a list of str
StrV(text) == [kind |-> "str", val |-> <<text>>]
ListV(texts) == [kind |-> "list", val |-> texts]
\* a number as a metadata value
NumV(x) == [kind |-> "num", val |-> x]
\* None, the value of a JSON null
NoneV == [none |-> TRUE]

\* datetime.fromisoformat(...) of a timestamp field: the age in days, or a
\* ValueError for a malformed string
TsOk(days) == [ok |-> TRUE, days |-> days]
TsBad == [ok |-> FALSE, days |-> 0]
\* datetime.now().isoformat(), the default of a missing timestamp
TsNow == TsOk(0)
\* a timestamp known to the hour; an age is negative for a future timestamp
TsHours(hours) == [ok |-> TRUE, days |-> hours \div 24, hours |-> hours]
\* now - timestamp in hours, and its .days
AgeHours(ts) == IF "hours" \in DOMAIN ts THEN ts.hours ELSE 24 * ts.days
AgeDays(ts) == AgeHours(ts) \div 24

----------------------------------------------------------------------------
(* Outcome of a call: a returned value or a raised exception *)

Ok(v) == [ok |-> TRUE, val |-> v]
Raised == [ok |-> FALSE, val |-> <<>>]

\* try: ... except Exception: return []
CatchEmpty(r) == IF r.ok THEN r.val ELSE <<>>

----------------------------------------------------------------------------
(* AdvancedSearchEngine: loading, the three retrieval strategies *)

N_RESULTS == 100              \* n_results of collection.query
KEYWORD_THRESHOLD == 100      \* similarity > 0.1
PARTIAL_MATCH == 500          \* score += 0.5
EXACT_MATCH == 1000           \* score += 1.0

\* _load_documents_for_search: every line of the *.jsonl files that parses,
\* with id = f"{stem}_{line_num}" (here the line number of the one file);
\* a line that is not JSON is skipped but still counted
RECURSIVE LoadLines(_, _)
LoadLines(lines, line_num) ==
  IF lines = <<>> THEN <<>>
  ELSE LET doc == Head(lines)
           rest == LoadLines(Tail(lines), line_num + 1)
       IN IF "invalid_json" \in DOMAIN doc THEN rest
          ELSE <<[k \in DOMAIN doc \cup {"id"} |->
                    IF k = "id" THEN line_num ELSE doc[k]]>> \o rest

LoadDocumentsForSearch(dir) == LoadLines(dir, 0)

\* collection.query: the entries nearest first, at most n_results of them
CollectionQuery(db, text) ==
  LET Distance(entry) == entry.distance[text]
  IN Slice(SortAscBy(db, Distance), 0, N_RESULTS)

\* metadata.get('source', 'unknown') and the like on the index's metadata
MetaStr(metadata, key, default) ==
  IF key \in DOMAIN metadata THEN metadata[key].val[1] ELSE default

\* one SearchResult of _semantic_search
SemanticResult(entry, text) ==
  LET score == 1000 - entry.distance[text]
  IN [id |-> entry.id,
      content |-> entry.content,
      source |-> MetaStr(entry.metadata, "source", <<"unknown">>),
      type |-> MetaStr(entry.metadata, "type", <<"document">>),
      score |-> score,
      metadata |-> entry.metadata,
      tags |-> IF "tags" \in DOMAIN entry.metadata
               THEN entry.metadata["tags"].val ELSE <<>>,
      timestamp |-> Get(entry, "timestamp", TsNow).days,
      relevance_factors |-> [f \in {"semantic_similarity"} |-> score]]

\* the try body of _semantic_search: encode and the index may raise, and so
\* does fromisoformat on a malformed timestamp
SemanticTry(query, db, e) ==
  IF e.sem THEN Raised
  ELSE LET found == CollectionQuery(db, query.text)
       IN IF \E i \in 1..Len(found) : ~Get(found[i], "timestamp", TsNow).ok
          THEN Raised
          ELSE Ok([i \in 1..Len(found) |-> SemanticResult(found[i], query.text)])

\* _semantic_search
SemanticSearchPropagates(query, db, e) == SemanticTry(query, db, e)
SemanticSearch(query, db, e) == Ok(CatchEmpty(SemanticTry(query, db, e)))

\* cosine_similarity of the TF-IDF vectors of the query and of a document,
\* as scikit-learn computes it from the two texts
TfidfCosine(text, doc) ==
  CASE text = <<"ML">> /\ doc.content.head = "A" -> 400
    [] text = <<"ML">> /\ doc.content.head = "B" -> 100
    [] text = <<"cat">> /\ doc.content.head = "B" -> 600
    [] text = <<"cat">> /\ doc.content.head = "C" -> 300
    [] OTHER -> 0

\* one SearchResult of _keyword_search
KeywordResult(doc, text) ==
  LET similarity == TfidfCosine(text, doc)
  IN [id |-> doc.id,
      content |-> doc.content,
      source |-> Get(doc, "source", <<"unknown">>),
      type |-> Get(doc, "type", <<"document">>),
      score |-> similarity,
      metadata |-> Get(doc, "metadata", <<>>),
      tags |-> Get(doc, "tags", <<>>),
      timestamp |-> Get(doc, "timestamp", TsNow).days,
      relevance_factors |-> [f \in {"keyword_similarity"} |-> similarity]]

\* the try body of _keyword_search: fitting the vectorizer may raise, a
\* document without 'content' raises KeyError, and fromisoformat raises on
\* the malformed timestamp of a document that passes the threshold
KeywordTry(query, documents, e) ==
  IF documents = <<>> THEN Ok(<<>>)
  ELSE IF e.kw \/ \E i \in 1..Len(documents) : "content" \notin DOMAIN documents[i]
  THEN Raised
  ELSE LET Relevant(doc) == TfidfCosine(query.text, doc) > KEYWORD_THRESHOLD
           hits == SelectSeq(documents, Relevant)
       IN IF \E i \in 1..Len(hits) : ~Get(hits[i], "timestamp", TsNow).ok
          THEN Raised
          ELSE Ok([i \in 1..Len(hits) |-> KeywordResult(hits[i], query.text)])

\* _keyword_search
KeywordSearch(query, documents, e) ==
  Ok(CatchEmpty(KeywordTry(query, documents, e)))

\* _calculate_metadata_score: the elif branch is only reached when neither
\* word contains the other
MatchScore(query_term, metadata_word) ==
  IF IsSubstr(query_term, metadata_word) \/ IsSubstr(metadata_word, query_term)
  THEN PARTIAL_MATCH
  ELSE IF Lower(query_term) = Lower(metadata_word) THEN EXACT_MATCH
  ELSE 0

CalculateMetadataScore(query_terms, metadata_value) ==
  SeqSum([i \in 1..Len(query_terms) |->
            SeqSum([j \in 1..Len(metadata_value) |->
                      MatchScore(query_terms[i], metadata_value[j])])])

\* the field scores of one metadata value: one for a str, one per item for a
\* list
FieldScores(query_terms, value) ==
  [i \in 1..Len(value.val) |->
     CalculateMetadataScore(query_terms, LowerSplit(value.val[i]))]

RECURSIVE SetSum(_, _)
SetSum(S, f) ==
  IF S = {} THEN 0
  ELSE LET x == CHOOSE y \in S : TRUE IN f[x] + SetSum(S \ {x}, f)

\* the summed score of a document in _metadata_search
MetadataScore(query_terms, metadata) ==
  SetSum(DOMAIN metadata,
         [field \in DOMAIN metadata |->
            SeqSum(FieldScores(query_terms, metadata[field]))])

\* relevance_factors of _metadata_search: f'{field}_match' for every field
\* with a positive field score, holding the last positive one
MetadataFactors(query_terms, metadata) ==
  LET Positive(x) == x > 0
      pos == [field \in DOMAIN metadata |->
                SelectSeq(FieldScores(query_terms, metadata[field]), Positive)]
      hit == {field \in DOMAIN metadata : pos[field] # <<>>}
      FieldOf(key) == CHOOSE field \in hit : field \o "_match" = key
  IN [key \in {field \o "_match" : field \in hit} |->
        pos[FieldOf(key)][Len(pos[FieldOf(key)])]]

\* one SearchResult of _metadata_search
MetadataResult(doc, query_terms) ==
  LET metadata == Get(doc, "metadata", <<>>)
  IN [id |-> doc.id,
      content |-> doc.content,
      source |-> Get(doc, "source", <<"unknown">>),
      type |-> Get(doc, "type", <<"document">>),
      score |-> MetadataScore(query_terms, metadata),
      metadata |-> metadata,
      tags |-> Get(doc, "tags", <<>>),
      timestamp |-> Get(doc, "timestamp", TsNow).days,
      relevance_factors |-> MetadataFactors(query_terms, metadata)]

\* the try body of _metadata_search; metadata.items() raises on a document
\* whose metadata is null
MetadataTry(query, documents) ==
  IF documents = <<>> THEN Ok(<<>>)
  ELSE IF \E i \in 1..Len(documents) :
            Get(documents[i], "metadata", <<>>) = NoneV
  THEN Raised
  ELSE LET query_terms == LowerSplit(query.text)
           Scored(doc) ==
             MetadataScore(query_terms, Get(doc, "metadata", <<>>)) > 0
           hits == SelectSeq(documents, Scored)
       IN IF \E i \in 1..Len(hits) :
               \/ "content" \notin DOMAIN hits[i]
               \/ ~Get(hits[i], "timestamp", TsNow).ok
          THEN Raised
          ELSE Ok([i \in 1..Len(hits) |-> MetadataResult(hits[i], query_terms)])

\* _metadata_search
MetadataSearch(query, documents) == Ok(CatchEmpty(MetadataTry(query, documents)))

----------------------------------------------------------------------------
(* AdvancedSearchEngine: filter, rank, personalize, paginate, record *)

W_SEMANTIC == 400             \* 'semantic_similarity': 0.4
W_KEYWORD == 300              \* 'keyword_similarity': 0.3
W_METADATA == 200             \* 'metadata_match': 0.2
W_FRESHNESS == 100            \* 'freshness': 0.1
YEAR_DAYS == 365              \* days_old / 365
BOOST_TYPE == 200             \* preference_boost += 0.2
BOOST_TAG == 100              \* preference_boost += 0.1
BOOST_SOURCE == 150           \* preference_boost += 0.15
HISTORY_CAP == 1000           \* len(self.search_history) > 1000

\* `metadata[key] not in filter_value` and `metadata[key] != filter_value`
FilterRejects(metadata_value, filter_value) ==
  IF filter_value.kind = "list"
  THEN ~(metadata_value.kind = "str"
         /\ metadata_value.val[1] \in Range(filter_value.val))
  ELSE metadata_value # filter_value

\* the body of the loop of _apply_filters: a filter key the metadata lacks
\* is passed over
IncludeResult(result, filters) ==
  \A filter_key \in DOMAIN filters :
    filter_key \in DOMAIN result.metadata
      => ~FilterRejects(result.metadata[filter_key], filters[filter_key])

\* _apply_filters
ApplyFilters(results, filters) ==
  IF DOMAIN filters = {} THEN results
  ELSE LET Keep(result) == IncludeResult(result, filters)
       IN SelectSeq(results, Keep)

\* _apply_filters has no try: `filter_key in result.metadata` raises
\* TypeError on a result whose metadata is None
ApplyFiltersTry(results, filters) ==
  IF DOMAIN filters = {} THEN Ok(results)
  ELSE IF \E i \in 1..Len(results) : results[i].metadata = NoneV THEN Raised
  ELSE Ok(ApplyFilters(results, filters))

weights ==
  [semantic_similarity |-> W_SEMANTIC, keyword_similarity |-> W_KEYWORD,
   metadata_match |-> W_METADATA, freshness |-> W_FRESHNESS]

\* max(0, 1.0 - days_old / 365)
Freshness(days_old) == Max(0, (1000 * (YEAR_DAYS - days_old)) \div YEAR_DAYS)

\* the loop body of _advanced_ranking
RescoreFreshnessPenalty(result) ==
  LET rf == result.relevance_factors
      present == DOMAIN weights \cap DOMAIN rf
      weighted == SetSum(present,
                         [f \in present |-> (rf[f] * weights[f]) \div 1000])
      freshness_score == Freshness(result.timestamp)
      composite_score ==
        weighted - (freshness_score * weights["freshness"]) \div 1000
  IN [result EXCEPT
        !.score = composite_score,
        !.relevance_factors =
          [f \in DOMAIN rf \cup {"freshness"} |->
             IF f = "freshness" THEN freshness_score ELSE rf[f]]]
Rescore(result) ==
  LET rf == result.relevance_factors
      present == DOMAIN weights \cap DOMAIN rf
      weighted == SetSum(present,
                         [f \in present |-> (rf[f] * weights[f]) \div 1000])
      freshness_score == Freshness(result.timestamp)
      composite_score ==
        weighted + (freshness_score * weights["freshness"]) \div 1000
  IN [result EXCEPT
        !.score = composite_score,
        !.relevance_factors =
          [f \in DOMAIN rf \cup {"freshness"} |->
             IF f = "freshness" THEN freshness_score ELSE rf[f]]]

\* _advanced_ranking
AdvancedRanking(results) ==
  SortDesc([i \in 1..Len(results) |-> Rescore(results[i])])

\* the boost of one result in _apply_personalization
PreferenceBoostTagsOnce(result, preferences) ==
  (IF result.type \in Range(Get(preferences, "preferred_types", <<>>))
   THEN BOOST_TYPE ELSE 0)
  + (IF \E i \in 1..Len(result.tags) :
          result.tags[i] \in Range(Get(preferences, "preferred_tags", <<>>))
     THEN BOOST_TAG ELSE 0)
  + (IF result.source \in Range(Get(preferences, "preferred_sources", <<>>))
     THEN BOOST_SOURCE ELSE 0)
PreferenceBoost(result, preferences) ==
  LET IsPreferredTag(tag) ==
        tag \in Range(Get(preferences, "preferred_tags", <<>>))
  IN (IF result.type \in Range(Get(preferences, "preferred_types", <<>>))
      THEN BOOST_TYPE ELSE 0)
     + BOOST_TAG * Len(SelectSeq(result.tags, IsPreferredTag))
     + (IF result.source \in Range(Get(preferences, "preferred_sources", <<>>))
        THEN BOOST_SOURCE ELSE 0)

Boosted(result, preferences) ==
  LET preference_boost == PreferenceBoost(result, preferences)
      rf == result.relevance_factors
  IN [result EXCEPT
        !.score = result.score + preference_boost,
        !.relevance_factors =
          [f \in DOMAIN rf \cup {"personalization_boost"} |->
             IF f = "personalization_boost" THEN preference_boost ELSE rf[f]]]

\* `user_id and user_id in self.user_preferences`: no 'user_id' key (None)
\* and the empty string are falsy
Personalizes(context, prefs) ==
  /\ "user_id" \in DOMAIN context
  /\ context["user_id"] # ""
  /\ context["user_id"] \in DOMAIN prefs

\* _apply_personalization
ApplyPersonalization(results, context, prefs) ==
  IF DOMAIN context = {} THEN results
  ELSE IF Personalizes(context, prefs)
  THEN SortDesc([i \in 1..Len(results) |->
                   Boosted(results[i], prefs[context["user_id"]])])
  ELSE results

\* personalized_results[query.offset:query.offset + query.limit]
Paginate(results, query) == Slice(results, query.offset, query.offset + query.limit)

\* Counter(result.type for result in results)
TypeCount(results) ==
  LET types == {results[i].type : i \in 1..Len(results)}
  IN [t \in types |-> Cardinality({i \in 1..Len(results) : results[i].type = t})]

\* _generate_search_analytics (query_time, a wall-clock duration, is left out)
GenerateSearchAnalytics(query, results) ==
  LET relevance_scores == [i \in 1..Len(results) |-> results[i].score]
  IN [total_results |-> Len(results),
      result_distribution |-> TypeCount(results),
      relevance_scores |-> relevance_scores,
      search_patterns |->
        [query_length |-> Len(query.text),
         filter_count |-> Cardinality(DOMAIN query.filters),
         result_count |-> Len(results),
         avg_score |-> IF relevance_scores = <<>> THEN 0
                       ELSE SeqSum(relevance_scores) \div Len(relevance_scores)],
      user_behavior |->
        [personalization_used |-> DOMAIN query.personalization_context # {},
         filters_applied |-> DOMAIN query.filters # {}]]

\* a recorder that passes over a search without results
RecordSearchWithResults(history, query, analytics, now) ==
  IF analytics.total_results = 0 THEN history
  ELSE Append(history, [timestamp |-> now, query |-> query.text,
                        filters |-> query.filters, analytics |-> analytics])

\* _record_search: append, then keep only the last 1000
RecordSearch(history, query, analytics, now) ==
  LET search_record == [timestamp |-> now, query |-> query.text,
                        filters |-> query.filters, analytics |-> analytics]
      appended == Append(history, search_record)
  IN IF Len(appended) > HISTORY_CAP
     THEN LastN(appended, HISTORY_CAP)
     ELSE appended

\* search: the seven steps inside its try; an exception of any step is
\* logged and raised again.  _keyword_search and _metadata_search each load
\* the documents of data_dir, one after the other
SearchCallOver(query, keyword_dir, metadata_dir, db, e, prefs) ==
  LET semantic == SemanticSearch(query, db, e)
      keyword == KeywordSearch(query, LoadDocumentsForSearch(keyword_dir), e)
      metadata == MetadataSearch(query, LoadDocumentsForSearch(metadata_dir))
      filtered ==
        IF semantic.ok /\ keyword.ok /\ metadata.ok
        THEN ApplyFiltersTry(semantic.val \o keyword.val \o metadata.val,
                             query.filters)
        ELSE Raised
  IN IF ~filtered.ok
     THEN [raised |-> TRUE]
     ELSE LET results == semantic.val \o keyword.val \o metadata.val
              filtered_results == filtered.val
              ranked_results == AdvancedRanking(filtered_results)
              personalized_results ==
                ApplyPersonalization(ranked_results,
                                     query.personalization_context, prefs)
              final_results == Paginate(personalized_results, query)
          IN [raised |-> FALSE,
              semantic_results |-> semantic.val,
              keyword_results |-> keyword.val,
              metadata_results |-> metadata.val,
              results |-> results,
              filtered_results |-> filtered_results,
              ranked_results |-> ranked_results,
              personalized_results |-> personalized_results,
              final_results |-> final_results,
              analytics |-> GenerateSearchAnalytics(query, final_results)]

\* search over a data_dir that does not change during the call
SearchCall(query, dir, db, e, prefs) ==
  SearchCallOver(query, dir, dir, db, e, prefs)

----------------------------------------------------------------------------
(* AIEnhancedSearch.  A result of the RAG engine is a dict with the optional
   keys content, metadata and similarity; a content is (head, tail, words):
   its first 100 characters, the rest, and its words for `term in content`. *)

AI_MAX_RESULTS == 20          \* "max_results": 20
AI_CACHE_SIZE == 1000         \* "cache_size": 1000
AI_W_SEMANTIC == 400          \* "semantic_similarity": 0.4
AI_W_CONTENT == 300           \* "content_relevance": 0.3
AI_W_METADATA == 200          \* "metadata_match": 0.2
AI_W_FRESHNESS == 100         \* "freshness": 0.1
AI_QUERIES_USED == 3          \* search_queries[:3]
AI_TOP_TERMS == 5             \* sorted_terms[:5]
AI_MIN_TERM_LEN == 3          \* len(term) > 3
AI_HISTORY_CAP == 100         \* len(self.search_history) > 100

\* the synonyms table of _expand_query_terms
Synonyms(term) ==
  CASE term = "document" -> << <<"file">>, <<"paper">>, <<"text">>, <<"content">> >>
    [] term = "photo" -> << <<"image">>, <<"picture">>, <<"photo">>, <<"snapshot">> >>
    [] OTHER -> <<>>

\* _expand_query_terms returns list(set(expanded)): the terms of this set in
\* an order the set's hashing decides
ExpandedTermSet(query_lower) ==
  {query_lower} \cup
  UNION {Range(Synonyms(query_lower[i])) : i \in 1..Len(query_lower)}

Orderings(S) ==
  {f \in [1..Cardinality(S) -> S] : \A i, j \in DOMAIN f : f[i] = f[j] => i = j}

\* _extract_common_terms: the 5 most frequent terms of more than 3
\* characters, ties in first-seen order
ExtractCommonTerms(history) ==
  LET words == Flatten([i \in 1..Len(history) |-> LowerSplit(history[i])])
      Long(w) == Len(Chars(w)) > AI_MIN_TERM_LEN
      long == SelectSeq(words, Long)
      firsts == {i \in 1..Len(long) : \A j \in 1..(i - 1) : long[j] # long[i]}
      distinct == [n \in 1..Cardinality(firsts) |->
                     long[CHOOSE i \in firsts :
                            Cardinality({j \in firsts : j < i}) = n - 1]]
      Freq(w) == Cardinality({i \in 1..Len(long) : long[i] = w})
      sorted_terms == SortDescBy(distinct, Freq)
  IN [i \in 1..Min(AI_TOP_TERMS, Len(sorted_terms)) |-> <<sorted_terms[i]>>]

\* enhance_query, up to the caching of its result; `expanded` is the order
\* in which list(set(...)) returned the expanded terms
EnhanceQuery(query, context, expanded, now) ==
  LET from_preferences ==
        IF "user_preferences" \in DOMAIN context
        THEN context["user_preferences"].val ELSE <<>>
      from_history ==
        IF "search_history" \in DOMAIN context
        THEN ExtractCommonTerms(context["search_history"].val) ELSE <<>>
      context_aware == DOMAIN context # {}
  IN [original_query |-> query,
      processed_query |-> LowerSplit(query),
      enhanced_terms |->
        IF context_aware THEN expanded \o from_preferences \o from_history
        ELSE expanded,
      context_aware |-> context_aware,
      context |-> context,
      timestamp |-> now]

\* a full cache evicting the key inserted last
CacheQueryEvictingNewest(cache, cache_size, query, enhanced) ==
  LET room == IF Len(cache) >= cache_size
              THEN SubSeq(cache, 1, Len(cache) - 1) ELSE cache
  IN IF \E i \in 1..Len(room) : room[i][1] = query
     THEN [i \in 1..Len(room) |->
             IF room[i][1] = query THEN <<query, enhanced>> ELSE room[i]]
     ELSE Append(room, <<query, enhanced>>)

\* _cache_query on an insertion-ordered dict, kept as a sequence of
\* (key, value) pairs
CacheQuery(cache, cache_size, query, enhanced) ==
  LET room == IF Len(cache) >= cache_size THEN Tail(cache) ELSE cache
  IN IF \E i \in 1..Len(room) : room[i][1] = query
     THEN [i \in 1..Len(room) |->
             IF room[i][1] = query THEN <<query, enhanced>> ELSE room[i]]
     ELSE Append(room, <<query, enhanced>>)

\* rag_engine.search(search_query, top_k=10) inside its try: the results it
\* adds to all_results.  RAGSearchEngine.search has no parameter top_k, so
\* the call on it raises TypeError, which is logged
RagResults(rag, search_query) ==
  IF rag.kind = "table" /\ search_query \in DOMAIN rag.results
  THEN rag.results[search_query]
  ELSE <<>>

\* the key of _deduplicate_results
ContentKey(result) ==
  <<IF "content" \in DOMAIN result THEN First100(result.content) ELSE "",
    IF "metadata" \in DOMAIN result /\ "source" \in DOMAIN result.metadata
    THEN result.metadata["source"] ELSE StrV(<<>>)>>

\* _deduplicate_results
DeduplicateResults(results) ==
  LET first == {i \in 1..Len(results) :
                  \A j \in 1..(i - 1) :
                    ContentKey(results[j]) # ContentKey(results[i])}
  IN [n \in 1..Cardinality(first) |->
        results[CHOOSE i \in first : Cardinality({j \in first : j < i}) = n - 1]]

\* Python's `term in content` on strings: the words of term are consecutive
\* in content, the first as a suffix and the last as a prefix of a word
TermIn(term, content) ==
  LET n == Len(term)
      IsSuffix(a, b) ==
        Len(Chars(a)) <= Len(Chars(b))
        /\ SubSeq(Chars(b), Len(Chars(b)) - Len(Chars(a)) + 1, Len(Chars(b)))
             = Chars(a)
      IsPrefix(a, b) ==
        Len(Chars(a)) <= Len(Chars(b))
        /\ SubSeq(Chars(b), 1, Len(Chars(a))) = Chars(a)
  IN IF n = 0 THEN TRUE
     ELSE IF n = 1 THEN \E i \in 1..Len(content) : IsSubstr(term[1], content[i])
     ELSE \E o \in 0..(Len(content) - n) :
            /\ IsSuffix(term[1], content[o + 1])
            /\ IsPrefix(term[n], content[o + n])
            /\ \A k \in 2..(n - 1) : term[k] = content[o + k]

\* _calculate_content_relevance
CalculateContentRelevance(result, query, enhanced_query) ==
  LET content == IF "content" \in DOMAIN result
                 THEN LowerSplit(result.content.words) ELSE <<>>
      query_terms == LowerSplit(query)
      enhanced_terms == enhanced_query.enhanced_terms
      term_matches ==
        Cardinality({i \in 1..Len(query_terms) :
                       TermIn(<<query_terms[i]>>, content)})
      enhanced_matches ==
        Cardinality({i \in 1..Len(enhanced_terms) :
                       TermIn(enhanced_terms[i], content)})
      query_score == IF query_terms # <<>>
                     THEN (1000 * term_matches) \div Len(query_terms) ELSE 0
      enhanced_score == IF enhanced_terms # <<>>
                        THEN (1000 * enhanced_matches) \div Len(enhanced_terms)
                        ELSE 0
  IN (query_score * 700 + enhanced_score * 300) \div 1000

\* _calculate_metadata_score of the AI engine
AIMetadataScore(result, enhanced_query) ==
  LET metadata == Get(result, "metadata", <<>>)
      context == enhanced_query.context
      keys == DOMAIN context \cap DOMAIN metadata
      Both(key) == context[key].kind = "list" /\ metadata[key].kind = "list"
      Common(key) == Range(context[key].val) \cap Range(metadata[key].val)
      Matches(key) ==
        IF Both(key) THEN Common(key) # {} ELSE context[key] = metadata[key]
      Part(key) ==
        IF Both(key)
        THEN (1000 * Cardinality(Common(key))) \div Len(context[key].val)
        ELSE 1000
      matched == {key \in keys : Matches(key)}
  IN IF DOMAIN context = {} THEN 500
     ELSE IF matched = {} THEN 0
     ELSE SetSum(matched, [key \in matched |-> Part(key)])
            \div Cardinality(matched)

\* _calculate_freshness_score: the first date field that parses decides; a
\* present field that is neither a string nor a number ends the search
RECURSIVE DocumentDate(_, _)
DocumentDate(metadata, fields) ==
  IF fields = <<>> THEN [found |-> FALSE, days |-> 0]
  ELSE IF Head(fields) \notin DOMAIN metadata
       THEN DocumentDate(metadata, Tail(fields))
  ELSE IF metadata[Head(fields)].kind = "date"
       THEN [found |-> TRUE, days |-> metadata[Head(fields)].val[1]]
  ELSE IF metadata[Head(fields)].kind = "str"
       THEN DocumentDate(metadata, Tail(fields))
  ELSE [found |-> FALSE, days |-> 0]

AIFreshnessScore(result) ==
  LET date == DocumentDate(Get(result, "metadata", <<>>),
                           <<"created_date", "modified_date", "date", "timestamp">>)
  IN IF ~date.found THEN 500
     ELSE IF date.days <= 0 THEN 1000
     ELSE IF date.days <= 30 THEN 900
     ELSE IF date.days <= 90 THEN 700
     ELSE IF date.days <= 365 THEN 500
     ELSE 300

\* the loop body of _rank_results
AIScored(result, query, enhanced_query) ==
  LET content_relevance == CalculateContentRelevance(result, query, enhanced_query)
      metadata_score == AIMetadataScore(result, enhanced_query)
      freshness_score == AIFreshnessScore(result)
      score ==
        (IF "similarity" \in DOMAIN result
         THEN (result.similarity * AI_W_SEMANTIC) \div 1000 ELSE 0)
        + (content_relevance * AI_W_CONTENT) \div 1000
        + (metadata_score * AI_W_METADATA) \div 1000
        + (freshness_score * AI_W_FRESHNESS) \div 1000
      factors ==
        [semantic_similarity |-> Get(result, "similarity", 0),
         content_relevance |-> content_relevance,
         metadata_match |-> metadata_score,
         freshness |-> freshness_score]
  IN [k \in DOMAIN result \cup {"ai_score", "ranking_factors"} |->
        IF k = "ai_score" THEN score
        ELSE IF k = "ranking_factors" THEN factors
        ELSE result[k]]

\* _rank_results
RankResults(results, query, enhanced_query) ==
  LET AiScore(r) == r.ai_score
  IN SortDescBy([i \in 1..Len(results) |->
                   AIScored(results[i], query, enhanced_query)], AiScore)

\* _apply_filters of the AI engine: a filter key the metadata lacks excludes
AIApplyFilters(results, filters) ==
  LET Keep(result) ==
        LET metadata == Get(result, "metadata", <<>>)
        IN \A filter_key \in DOMAIN filters :
             /\ filter_key \in DOMAIN metadata
             /\ ~FilterRejects(metadata[filter_key], filters[filter_key])
  IN SelectSeq(results, Keep)

\* _record_search of the AI engine
AIRecordSearch(history, query, context, result_count, now) ==
  LET appended ==
        Append(history, [query |-> query, timestamp |-> now,
                         result_count |-> result_count, context |-> context])
  IN IF Len(appended) > AI_HISTORY_CAP
     THEN LastN(appended, AI_HISTORY_CAP)
     ELSE appended

\* intelligent_search, from the enhanced query on: the searches of the
\* first three queries, deduplication, ranking, truncation, filters
IntelligentSearchCall(rag, query, enhanced_query, filters) ==
  LET search_queries == <<query>> \o enhanced_query.enhanced_terms
      used == Slice(search_queries, 0, AI_QUERIES_USED)
      all_results ==
        IF rag.kind = "none" THEN <<>>
        ELSE Flatten([i \in 1..Len(used) |-> RagResults(rag, used[i])])
      unique_results == DeduplicateResults(all_results)
      ranked_results == RankResults(unique_results, query, enhanced_query)
      truncated == Slice(ranked_results, 0, AI_MAX_RESULTS)
      results ==
        IF DOMAIN filters # {} /\ truncated # <<>>
        THEN AIApplyFilters(truncated, filters) ELSE truncated
  IN [all_results |-> all_results,
      unique_results |-> unique_results,
      ranked_results |-> ranked_results,
      results |-> results,
      total_results |-> IF DOMAIN filters # {} /\ truncated # <<>>
                        THEN Len(results) ELSE Len(ranked_results)]

----------------------------------------------------------------------------
(* DiscoveryEngine.  The embedding of an item is a function of its content,
   so the cosine similarity of two items is a table over their contents. *)

GRAPH_THRESHOLD == 300        \* threshold = 0.3
RELEVANCE_THRESHOLD == 100    \* similarity > 0.1
RELATED_SHOWN == 5            \* neighbors(...)[:5]
MIN_CLUSTERS == 2             \* if n_clusters < 2: n_clusters = 2
MAX_CLUSTERS == 10            \* min(10, ...)
ITEMS_PER_CLUSTER == 5        \* len(self.content_items) // 5
DAY_HOURS == 24               \* timedelta(days=1), in hours
WEEK_DAYS == 7                \* timedelta(days=7)
MONTH_DAYS == 30              \* timedelta(days=30)
W_POPULARITY == 600           \* item.popularity_score * 0.6
W_ENGAGEMENT == 300           \* engagement_score * 0.3
W_TIME_DECAY == 100           \* time_decay * 0.1
TOP_TAGS == 10                \* tag_counts.most_common(10)

\* cosine_similarity of the embeddings of two contents, in thousandths
CosineSimilarity(a, b) ==
  LET pair == {a.head, b.head}
  IN CASE a.head = b.head -> 1000
       [] pair = {"P", "Q"} -> 800
       [] pair = {"P", "R"} -> 200
       [] pair = {"Q", "R"} -> 350
       [] pair = {"P", "S"} -> 50
       [] pair = {"Q", "S"} -> 100
       [] pair = {"R", "S"} -> 250
       [] OTHER -> 0

\* the ContentItem of one decoded line
ContentItemOf(doc, line_num) ==
  [id |-> line_num,
   content |-> Get(doc, "content", [head |-> "", tail |-> ""]),
   title |-> Get(doc, "title", Get(doc, "filename", <<"Untitled">>)),
   type |-> Get(doc, "type", <<"document">>),
   source |-> Get(doc, "source", <<"unknown">>),
   tags |-> Get(doc, "tags", <<>>),
   metadata |-> Get(doc, "metadata", <<>>),
   timestamp |-> Get(doc, "timestamp", TsNow),
   popularity_score |-> Get(doc, "popularity_score", 0),
   engagement_metrics |-> Get(doc, "engagement_metrics", <<>>)]

\* the loop of _load_content: a line that is not JSON is skipped, a
\* timestamp that does not parse raises
RECURSIVE LoadContentLines(_, _)
LoadContentLines(lines, line_num) ==
  IF lines = <<>> THEN Ok(<<>>)
  ELSE LET doc == Head(lines)
           rest == LoadContentLines(Tail(lines), line_num + 1)
       IN IF "invalid_json" \in DOMAIN doc THEN rest
          ELSE IF ~Get(doc, "timestamp", TsNow).ok \/ ~rest.ok THEN Raised
          ELSE Ok(<<ContentItemOf(doc, line_num)>> \o rest.val)

\* _build_content_graph: an edge, and with it its two nodes, for every pair
\* of items more similar than the threshold, in the order of the loops
BuildContentGraph(items) ==
  LET n == Len(items)
      pairs == {p \in (1..n) \X (1..n) :
                  /\ p[1] < p[2]
                  /\ CosineSimilarity(items[p[1]].content, items[p[2]].content)
                       > GRAPH_THRESHOLD}
      Rank(p) == Cardinality({q \in pairs :
                    q[1] < p[1] \/ (q[1] = p[1] /\ q[2] < p[2])})
      edges == [k \in 1..Cardinality(pairs) |->
                  LET p == CHOOSE q \in pairs : Rank(q) = k - 1
                  IN [u |-> items[p[1]].id, v |-> items[p[2]].id,
                      weight |-> CosineSimilarity(items[p[1]].content,
                                                  items[p[2]].content)]]
  IN [nodes |-> {edges[k].u : k \in 1..Len(edges)}
                  \cup {edges[k].v : k \in 1..Len(edges)},
      edges |-> edges]

\* DiscoveryEngine(data_dir): _load_content with the embeddings, the graph
\* and the clusters.  cosine_similarity raises on no item and KMeans on
\* fewer items than its MIN_CLUSTERS clusters, and every step re-raises
Construct(dir) ==
  LET loaded == LoadContentLines(dir, 0)
  IN IF ~loaded.ok \/ Len(loaded.val) < MIN_CLUSTERS THEN Raised
     ELSE Ok([content_items |-> loaded.val,
              content_graph |-> BuildContentGraph(loaded.val)])

\* n_clusters of _generate_clusters
NClusters(n) == Max(MIN_CLUSTERS, Min(MAX_CLUSTERS, n \div ITEMS_PER_CLUSTER))

\* kmeans.fit_predict(self.content_embeddings): one label per item.  Items
\* of equal embedding get the same label, and KMeans leaves no cluster
\* empty unless there are fewer distinct embeddings than clusters
KMeansLabels(items) ==
  LET n == Len(items)
      k == NClusters(n)
      distinct == {items[i].content : i \in 1..n}
  IN {labels \in [1..n -> 0..(k - 1)] :
        /\ \A i, j \in 1..n :
             items[i].content = items[j].content => labels[i] = labels[j]
        /\ Cardinality(Range(labels)) = Min(k, Cardinality(distinct))}

\* self.content_items.index(item): the first item equal to it
IndexOf(items, item) == CHOOSE i \in 1..Len(items) :
                          items[i] = item /\ \A j \in 1..(i - 1) : items[j] # item

\* _calculate_cluster_coherence reading the embeddings at the positions of
\* the members in their cluster instead of at their index in the catalog
CalculateClusterCoherenceByPosition(all_items, items) ==
  LET pairs == {p \in (1..Len(items)) \X (1..Len(items)) : p[1] < p[2]}
      Similarity(p) ==
        CosineSimilarity(all_items[p[1]].content, all_items[p[2]].content)
  IN IF Len(items) < 2 THEN 1000
     ELSE SetSum(pairs, [p \in pairs |-> Similarity(p)]) \div Cardinality(pairs)

\* _calculate_cluster_coherence: the mean similarity of the pairs of members
CalculateClusterCoherence(all_items, items) ==
  LET pairs == {p \in (1..Len(items)) \X (1..Len(items)) : p[1] < p[2]}
      Similarity(p) ==
        CosineSimilarity(all_items[IndexOf(all_items, items[p[1]])].content,
                         all_items[IndexOf(all_items, items[p[2]])].content)
  IN IF Len(items) < 2 THEN 1000
     ELSE SetSum(pairs, [p \in pairs |-> Similarity(p)]) \div Cardinality(pairs)

\* how close the embedding of a content is to kmeans.cluster_centers_ of the
\* cluster of members.  The centre is the mean c of the members' embeddings
\* and all-MiniLM-L6-v2 embeddings are unit vectors, so that
\* |x - c|^2 = 1 + |c|^2 - (2/n) * (sum of cos(x, m) over the members m):
\* the norm of the difference is least where this sum is greatest
Closeness(content, members) ==
  SetSum(1..Len(members),
         [j \in 1..Len(members) |-> CosineSimilarity(content,
                                                     members[j].content)])

\* centroid_idx of _generate_clusters: np.argmin, the first least, of the
\* norms of self.content_embeddings[i] - centre for i in range(len(items)),
\* the embeddings at the first len(items) positions of the catalog
CentroidIdx(all_items, members) ==
  CHOOSE i \in 1..Len(members) :
    /\ \A j \in 1..Len(members) :
         Closeness(all_items[j].content, members)
           <= Closeness(all_items[i].content, members)
    /\ \A j \in 1..(i - 1) :
         Closeness(all_items[j].content, members)
           < Closeness(all_items[i].content, members)

\* the loops of _generate_clusters: the groups in the order in which their
\* labels first occur, one ContentCluster each (its keywords are not
\* carried)
GenerateClusters(items, labels) ==
  LET n == Len(items)
      firsts == {i \in 1..n : \A j \in 1..(i - 1) : labels[j] # labels[i]}
      LabelAt(c) == labels[CHOOSE i \in firsts :
                             Cardinality({j \in firsts : j < i}) = c - 1]
      Members(label) ==
        LET Labelled(i) == labels[i] = label
            idx == SelectSeq([i \in 1..n |-> i], Labelled)
        IN [m \in 1..Len(idx) |-> items[idx[m]]]
  IN [c \in 1..Cardinality(firsts) |->
        LET members == Members(LabelAt(c))
        IN [cluster_id |-> LabelAt(c),
            centroid |-> members[CentroidIdx(items, members)].content,
            content_items |-> [m \in 1..Len(members) |-> members[m].id],
            coherence_score |-> CalculateClusterCoherence(items, members),
            size |-> Len(members)]]

\* content_graph.neighbors(id): NetworkXError when id is not a node
Neighbors(graph, id) ==
  LET Touches(e) == e.u = id \/ e.v = id
      touching == SelectSeq(graph.edges, Touches)
  IN IF id \notin graph.nodes THEN Raised
     ELSE Ok([k \in 1..Len(touching) |->
                IF touching[k].u = id THEN touching[k].v ELSE touching[k].u])

\* _determine_similarity_type
DetermineSimilarityType(item1, item2) ==
  IF item1.type = item2.type THEN "same_type"
  ELSE IF item1.source = item2.source THEN "same_source"
  ELSE IF Range(item1.tags) \cap Range(item2.tags) # {} THEN "tag_overlap"
  ELSE "content_similarity"

\* _calculate_tag_overlap
CalculateTagOverlap(tags1, tags2) ==
  IF tags1 = <<>> \/ tags2 = <<>> THEN 0
  ELSE (1000 * Cardinality(Range(tags1) \cap Range(tags2)))
         \div Cardinality(Range(tags1) \cup Range(tags2))

\* the DiscoveryResult of one candidate
DiscoveryResultOf(content_item, other_item, similarity, related_content) ==
  [content_id |-> other_item.id,
   score |-> similarity,
   reason |-> <<"Similar to">> \o content_item.title,
   similarity_type |-> DetermineSimilarityType(content_item, other_item),
   related_content |-> Slice(related_content, 0, RELATED_SHOWN),
   discovery_factors |->
     [content_similarity |-> similarity,
      type_match |-> IF content_item.type = other_item.type THEN 1000 ELSE 0,
      tag_overlap |-> CalculateTagOverlap(content_item.tags, other_item.tags)]]

\* an unknown id taken for that of the first item
RecommendationsTryFirstItem(items, graph, content_id, limit) ==
  LET known == {i \in 1..Len(items) : items[i].id = content_id}
      found == IF known = {} THEN DOMAIN items ELSE known
      content_idx == CHOOSE i \in found : \A j \in found : i <= j
      content_item == items[content_idx]
      Sim(i) == CosineSimilarity(content_item.content, items[i].content)
      Candidate(i) == i # content_idx /\ Sim(i) > RELEVANCE_THRESHOLD
      candidates == SelectSeq([i \in 1..Len(items) |-> i], Candidate)
      discovery_results ==
        [k \in 1..Len(candidates) |->
           DiscoveryResultOf(content_item, items[candidates[k]],
                             Sim(candidates[k]),
                             Neighbors(graph, items[candidates[k]].id).val)]
  IN IF found = {} THEN Ok(<<>>)
     ELSE IF \E k \in 1..Len(candidates) :
               ~Neighbors(graph, items[candidates[k]].id).ok
          THEN Raised
     ELSE Ok(Slice(SortDesc(discovery_results), 0, limit))
\* the body of the try of get_recommendations
RecommendationsTry(items, graph, content_id, limit) ==
  LET found == {i \in 1..Len(items) : items[i].id = content_id}
      content_idx == CHOOSE i \in found : \A j \in found : i <= j
      content_item == items[content_idx]
      Sim(i) == CosineSimilarity(content_item.content, items[i].content)
      Candidate(i) == i # content_idx /\ Sim(i) > RELEVANCE_THRESHOLD
      candidates == SelectSeq([i \in 1..Len(items) |-> i], Candidate)
      discovery_results ==
        [k \in 1..Len(candidates) |->
           DiscoveryResultOf(content_item, items[candidates[k]],
                             Sim(candidates[k]),
                             Neighbors(graph, items[candidates[k]].id).val)]
  IN IF found = {} THEN Ok(<<>>)
     ELSE IF \E k \in 1..Len(candidates) :
               ~Neighbors(graph, items[candidates[k]].id).ok
          THEN Raised
     ELSE Ok(Slice(SortDesc(discovery_results), 0, limit))

\* get_recommendations(content_id, limit)
GetRecommendationsResult(items, graph, content_id, limit) ==
  CatchEmpty(RecommendationsTry(items, graph, content_id, limit))

\* a threshold of one week whatever the window
WindowOfAWeek(time_window) == WEEK_DAYS

\* the threshold of get_trending_content, in days
WindowDays(time_window) ==
  IF time_window = "1d" THEN 1
  ELSE IF time_window = "7d" THEN WEEK_DAYS
  ELSE IF time_window = "30d" THEN MONTH_DAYS
  ELSE WEEK_DAYS

\* item.timestamp >= datetime.now() - timedelta(days=days)
Recent(item, days) == AgeHours(item.timestamp) <= DAY_HOURS * days

\* sum(item.engagement_metrics.values()) if item.engagement_metrics else 0.0
EngagementScore(item) ==
  SetSum(DOMAIN item.engagement_metrics, item.engagement_metrics)

\* the trending score of one recent item
TrendingScore(item) ==
  LET time_decay == 1000 \div (1 + AgeDays(item.timestamp))
  IN (item.popularity_score * W_POPULARITY
      + EngagementScore(item) * W_ENGAGEMENT
      + time_decay * W_TIME_DECAY) \div 1000

\* what makes the scoring loop raise on an item: the division by
\* 1 + (-1) days for a timestamp less than a day ahead, and the item
\* assignment on a metadata that is None
ScoringRaises(item) ==
  AgeDays(item.timestamp) = -1 \/ item.metadata = NoneV

\* item.metadata['trending_score'] = trending_score
WithTrendingScore(item) ==
  [item EXCEPT !.metadata =
     [k \in DOMAIN item.metadata \cup {"trending_score"} |->
        IF k = "trending_score" THEN NumV(TrendingScore(item))
        ELSE item.metadata[k]]]

\* get_trending_content: the items as the scoring loop leaves them, and the
\* list returned; an exception ends the loop and returns []
TrendingContent(items, time_window, limit) ==
  LET n == Len(items)
      recent == {i \in 1..n : Recent(items[i], WindowDays(time_window))}
      failing == {i \in recent : ScoringRaises(items[i])}
      scored == {i \in recent : \A j \in failing : i < j}
      after == [i \in 1..n |->
                  IF i \in scored THEN WithTrendingScore(items[i])
                  ELSE items[i]]
      IsRecent(i) == i \in recent
      recent_content ==
        LET idx == SelectSeq([i \in 1..n |-> i], IsRecent)
        IN [m \in 1..Len(idx) |-> after[idx[m]]]
      Key(item) == item.metadata["trending_score"].val
  IN [content_items |-> after,
      returned |-> IF failing # {} THEN <<>>
                   ELSE Slice(SortDescBy(recent_content, Key), 0, limit)]

\* cosine_similarity of the embedding of a query and that of a content
QuerySimilarity(query, content) ==
  CASE query = <<"ml">> /\ content.head = "P" -> 700
    [] query = <<"ml">> /\ content.head = "Q" -> 150
    [] query = <<"ml">> /\ content.head = "R" -> 100
    [] query = <<"cat">> /\ content.head = "R" -> 900
    [] query = <<"cat">> /\ content.head = "S" -> 200
    [] OTHER -> 0

\* the body of the try of search_similar_content
SimilarContentTry(items, graph, query, limit) ==
  LET Sim(i) == QuerySimilarity(query, items[i].content)
      Candidate(i) == Sim(i) > RELEVANCE_THRESHOLD
      candidates == SelectSeq([i \in 1..Len(items) |-> i], Candidate)
      EngagementOf(item) ==
        SetSum(DOMAIN item.engagement_metrics, item.engagement_metrics)
      discovery_results ==
        [k \in 1..Len(candidates) |->
           LET item == items[candidates[k]]
           IN [content_id |-> item.id,
               score |-> Sim(candidates[k]),
               reason |-> <<"Similar to query:">> \o query,
               similarity_type |-> "query_similarity",
               related_content |->
                 Slice(Neighbors(graph, item.id).val, 0, RELATED_SHOWN),
               discovery_factors |->
                 [query_similarity |-> Sim(candidates[k]),
                  content_popularity |-> item.popularity_score,
                  engagement_level |-> EngagementOf(item)]]]
  IN IF \E k \in 1..Len(candidates) :
          ~Neighbors(graph, items[candidates[k]].id).ok
     THEN Raised
     ELSE Ok(Slice(SortDesc(discovery_results), 0, limit))

\* search_similar_content(query, limit)
SearchSimilarContentResult(items, graph, query, limit) ==
  CatchEmpty(SimilarContentTry(items, graph, query, limit))

\* get_cluster_content(cluster_id)
ClusterContent(items, cluster_list, cluster_id) ==
  LET found == {c \in 1..Len(cluster_list) :
                  cluster_list[c].cluster_id = cluster_id}
      cluster == cluster_list[CHOOSE c \in found : \A d \in found : c <= d]
      Member(item) == item.id \in Range(cluster.content_items)
  IN IF found = {} THEN <<>> ELSE SelectSeq(items, Member)

\* the threshold of get_trend_analysis, in days
AnalysisWindowDays(time_window) ==
  IF time_window = "7d" THEN WEEK_DAYS ELSE MONTH_DAYS

\* get_trend_analysis: the topics, the popularity scores by type and the
\* popularity metrics of the recent items (the daily patterns and the
\* TF-IDF themes are not carried); the mean of no score is nan
TrendAnalysis(items, time_window) ==
  LET IsRecent(item) == Recent(item, AnalysisWindowDays(time_window))
      recent_content == SelectSeq(items, IsRecent)
      n == Len(recent_content)
      all_tags == Flatten([i \in 1..n |-> recent_content[i].tags])
      firsts == {i \in 1..Len(all_tags) :
                   \A j \in 1..(i - 1) : all_tags[j] # all_tags[i]}
      distinct == [t \in 1..Cardinality(firsts) |->
                     all_tags[CHOOSE i \in firsts :
                                Cardinality({j \in firsts : j < i}) = t - 1]]
      Count(tag) == Cardinality({i \in 1..Len(all_tags) : all_tags[i] = tag})
      most_common == Slice(SortDescBy(distinct, Count), 0, TOP_TAGS)
      TopicsOf(tag) ==
        LET Tagged(item) == tag \in Range(item.tags)
            tagged == SelectSeq(recent_content, Tagged)
        IN [i \in 1..Len(tagged) |->
              [tag |-> tag, count |-> Count(tag),
               trend_score |-> Count(tag) * tagged[i].popularity_score]]
      types == {recent_content[i].type : i \in 1..n}
      OfType(type) ==
        LET Typed(item) == item.type = type
            typed == SelectSeq(recent_content, Typed)
        IN [i \in 1..Len(typed) |-> typed[i].popularity_score]
      popularity == [i \in 1..n |-> recent_content[i].popularity_score]
      engagement ==
        [i \in 1..n |->
           SetSum(DOMAIN recent_content[i].engagement_metrics,
                  recent_content[i].engagement_metrics)]
  IN [trending_topics |->
        Flatten([t \in 1..Len(most_common) |-> TopicsOf(most_common[t])]),
      content_trends |-> [type \in types |-> OfType(type)],
      popularity_metrics |->
        [avg_popularity |-> IF n = 0 THEN "nan"
                            ELSE <<SeqSum(popularity) \div n>>,
         total_engagement |-> SeqSum(engagement),
         content_velocity |-> (1000 * n) \div MONTH_DAYS]]

----------------------------------------------------------------------------
(* The catalogs, indexes, queries and preferences the model draws from *)

Paperless == <<"paperless">>
Photoprism == <<"photoprism">>
Document == <<"document">>
Photo == <<"photo">>

Line0 ==
  [content |-> [head |-> "A", tail |-> "1"], source |-> Paperless,
   type |-> Document, tags |-> << <<"ml">> >>,
   metadata |-> [title |-> StrV(<<"ml">>), category |-> StrV(<<"work">>)],
   timestamp |-> TsOk(0)]
Line1 == [invalid_json |-> TRUE]
Line2 ==
  [content |-> [head |-> "A", tail |-> "2"], source |-> Paperless,
   metadata |-> [title |-> StrV(<<"xml">>)]]
Line3 ==
  [content |-> [head |-> "B", tail |-> "1"], source |-> Photoprism,
   type |-> Photo, tags |-> << <<"cat">>, <<"ml">> >>,
   metadata |-> [category |-> StrV(<<"home">>),
                 keywords |-> ListV(<< <<"ML">>, <<"cat">> >>)],
   timestamp |-> TsOk(0)]
Line4 ==
  [content |-> [head |-> "C", tail |-> "1"], source |-> Paperless,
   type |-> Document, metadata |-> [title |-> StrV(<<"cat">>)],
   timestamp |-> TsBad]

Entry0 ==
  [id |-> 0, content |-> [head |-> "A", tail |-> "1"],
   metadata |-> [source |-> StrV(Paperless), type |-> StrV(Document),
                 category |-> StrV(<<"work">>)],
   timestamp |-> TsOk(73),
   distance |-> [t \in {<<"ML">>, <<"cat">>} |->
                   IF t = <<"ML">> THEN 200 ELSE 900]]
Entry3 ==
  [id |-> 3, content |-> [head |-> "B", tail |-> "1"],
   metadata |-> [source |-> StrV(Photoprism), type |-> StrV(Photo),
                 tags |-> ListV(<< <<"cat">>, <<"ml">> >>),
                 category |-> StrV(<<"home">>)],
   timestamp |-> TsOk(0),
   distance |-> [t \in {<<"ML">>, <<"cat">>} |->
                   IF t = <<"ML">> THEN 700 ELSE 100]]
Entry5 ==
  [id |-> 5, content |-> [head |-> "D", tail |-> "1"],
   metadata |-> <<>>,
   distance |-> [t \in {<<"ML">>, <<"cat">>} |->
                   IF t = <<"ML">> THEN 1300 ELSE 1000]]

\* an older entry nearer to "ML" and a new one a little farther from it
EntryOldNear ==
  [id |-> 7, content |-> [head |-> "E", tail |-> "1"],
   metadata |-> [source |-> StrV(Paperless), type |-> StrV(Document)],
   timestamp |-> TsOk(300),
   distance |-> [t \in {<<"ML">>, <<"cat">>} |->
                   IF t = <<"ML">> THEN 100 ELSE 900]]
EntryNewFar ==
  [id |-> 8, content |-> [head |-> "F", tail |-> "1"],
   metadata |-> [source |-> StrV(Paperless), type |-> StrV(Document)],
   timestamp |-> TsOk(0),
   distance |-> [t \in {<<"ML">>, <<"cat">>} |->
                   IF t = <<"ML">> THEN 310 ELSE 900]]

\* results a RAG engine returns; a metadata date is a "date" value when it
\* parses (its age in days) and a "str" value when it does not
RagA ==
  [content |-> [head |-> "A", tail |-> "1", words |-> <<"ML", "work">>],
   metadata |-> [source |-> StrV(Paperless), category |-> StrV(<<"work">>),
                 timestamp |-> [kind |-> "date", val |-> <<10>>]],
   similarity |-> 800]
RagA2 ==
  [content |-> [head |-> "A", tail |-> "2", words |-> <<"xml">>],
   metadata |-> [source |-> StrV(Paperless)],
   similarity |-> 900]
RagB ==
  [content |-> [head |-> "B", tail |-> "1", words |-> <<"cat">>],
   metadata |-> [source |-> StrV(Photoprism),
                 created_date |-> StrV(<<"soon">>)]]

NoEngine == [kind |-> "none"]
\* a RAGSearchEngine of this repository
RepoEngine == [kind |-> "repo"]
\* an engine whose search(query, top_k) answers from a table
TableEngine ==
  [kind |-> "table",
   results |-> [t \in {<<"ML">>, <<"ml">>} |->
                  IF t = <<"ML">> THEN <<RagA, RagB, RagA2>> ELSE <<RagA2>>]]
RagEngines == {NoEngine, RepoEngine, TableEngine}

AIQueries == {<<"ML">>}
AIContexts == {<<>>}
AIFilters == {<<>>}

\* lines of the catalog of a DiscoveryEngine
DocP ==
  [content |-> [head |-> "P", tail |-> "1"], title |-> <<"p">>,
   type |-> Document, source |-> Paperless, tags |-> << <<"ml">> >>,
   timestamp |-> TsHours(30)]
DocQ ==
  [content |-> [head |-> "Q", tail |-> "1"], filename |-> <<"q">>,
   type |-> Photo, source |-> Paperless, tags |-> << <<"ml">>, <<"cat">> >>,
   timestamp |-> TsHours(5), popularity_score |-> 500,
   engagement_metrics |-> [views |-> 200, shares |-> 100]]
DocR ==
  [content |-> [head |-> "R", tail |-> "1"], type |-> Photo,
   source |-> Photoprism, tags |-> << <<"cat">> >>]
DocS == [content |-> [head |-> "S", tail |-> "1"], source |-> Photoprism]

\* items ten and forty days old, and items five and thirty hours ahead of
\* the clock of the engine
DocOld ==
  [content |-> [head |-> "T", tail |-> "1"], title |-> <<"old">>,
   timestamp |-> TsHours(240), popularity_score |-> 900]
DocAncient ==
  [content |-> [head |-> "U", tail |-> "1"], timestamp |-> TsHours(960),
   popularity_score |-> 1000]
DocSoon ==
  [content |-> [head |-> "V", tail |-> "1"], timestamp |-> TsHours(-5)]
DocLater ==
  [content |-> [head |-> "W", tail |-> "1"], timestamp |-> TsHours(-30),
   metadata |-> [category |-> StrV(<<"work">>)]]

\* the catalogs a DiscoveryEngine is constructed over
Catalogs ==
  { <<DocP, DocQ>>,
    <<DocP, DocQ, DocR>>,
    <<DocP, DocR, DocS>>,
    <<DocP, Line1, DocQ, DocR, DocS>>,
    <<DocOld, DocP, DocAncient, DocQ>>,
    <<DocQ, DocSoon, DocP>>,
    <<DocLater, DocOld>> }
TimeWindows == {"1d", "7d", "30d", "24h"}
TrendingLimits == {0, 1, 10}
SimilarQueries == {<<"ml">>, <<"cat">>}
ClusterIds == 0..2
\* a line whose timestamp does not parse, and a line without content
DocBadTime ==
  [content |-> [head |-> "Q", tail |-> "2"], timestamp |-> TsBad]
DocNoContent == [title |-> <<"x">>]

\* the catalogs initialize_discovery_engine is called over
BuildCatalogs ==
  Catalogs \cup
  { <<>>, <<Line1>>, <<DocP>>, <<DocP, DocBadTime>>,
    <<DocNoContent, DocNoContent>>, <<DocP, DocNoContent, DocP>> }
ContentIds == 0..5
RecommendationLimits == {0, 1, 2, 3, 10}

\* a line whose metadata is null
LineNull ==
  [content |-> [head |-> "A", tail |-> "3"], source |-> Paperless,
   type |-> Document, metadata |-> NoneV, timestamp |-> TsOk(5)]

\* (data_dir, vector_db) pairs
Installations ==
  { <<<<>>, <<>>>>,
    <<<<Line0, Line1, Line2, Line3>>, <<Entry0, Entry3, Entry5>>>>,
    <<<<Line0, Line1, Line2, Line3, Line4>>, <<Entry3, Entry0>>>> }

\* installations with a document of null metadata
NullInstallations ==
  { <<<<LineNull, Line0>>, <<Entry0>>>>,
    <<<<Line0, Line3, LineNull>>, <<>>>> }

Texts == {<<"ML">>, <<"cat">>}
FilterMaps ==
  { <<>>,
    [category |-> StrV(<<"work">>)],
    [category |-> ListV(<< <<"work">>, <<"home">> >>)] }
Pages == { <<0, 0>>, <<1, 0>>, <<2, 1>>, <<3, 9>> }
Contexts == { <<>>, [user_id |-> "u1"], [user_id |-> ""], [session |-> "s"] }

\* the queries of Spec: every text, filter map and page, no personalization
Queries ==
  { [text |-> t, filters |-> f, limit |-> p[1], offset |-> p[2],
     personalization_context |-> <<>>] :
      t \in Texts, f \in FilterMaps, p \in Pages }

\* the queries of SpecPers: every text and personalization context
PersQueries ==
  { [text |-> t, filters |-> <<>>, limit |-> p[1], offset |-> p[2],
     personalization_context |-> c] :
      t \in Texts, p \in {<<1, 0>>, <<5, 0>>}, c \in Contexts }

\* which external calls raise during a search: encode / the vector index,
\* the TF-IDF vectorizer
Envs == [sem : BOOLEAN, kw : BOOLEAN]

PrefersPhoto == [preferred_types |-> <<Photo>>]
PrefersTagsAndSource ==
  [preferred_tags |-> << <<"ml">>, <<"cat">> >>,
   preferred_sources |-> <<Paperless>>]
\* (user_id, preferences) arguments of set_user_preferences
PreferenceInputs ==
  { <<"u1", PrefersPhoto>>, <<"u1", PrefersTagsAndSource>>,
    <<"", PrefersPhoto>> }

----------------------------------------------------------------------------
(* AdvancedSearchEngine: state and operations *)

NoCall == [op |-> "none"]
Idle == [pc |-> "idle"]

InitSearch ==
  /\ \E inst \in Installations : data_dir = inst[1] /\ vector_db = inst[2]
  /\ search_history = <<>>
  /\ user_preferences = <<>>
  /\ clock = 0
  /\ last = NoCall
  /\ inflight = Idle

\* AIEnhancedSearch(config_path=...), as main() constructs it: no RAG engine
InitAI ==
  /\ ai_rag = NoEngine
  /\ ai_cache_size = AI_CACHE_SIZE
  /\ query_cache = <<>>
  /\ ai_history = <<>>
  /\ ai_last = NoCall

InitDisc ==
  /\ content_items = <<>>
  /\ content_graph = [nodes |-> {}, edges |-> <<>>]
  /\ clusters = <<>>
  /\ discovery_engine = FALSE
  /\ disc_last = NoCall

\* NetworkDocumentIngestion(config) over an empty source tree and a new
\* index database
NoStats ==
  [total_files |-> 0, processed_files |-> 0, failed_files |-> 0,
   skipped_files |-> 0]

InitOps ==
  /\ source_tree = <<>>
  /\ ingest_documents = <<>>
  /\ processing_stats = NoStats
  /\ index_db = {}
  /\ ingest_last = NoCall

\* no search is running and no ProductionManager has been constructed
InitThreads == recorders = <<>>
InitNoManager ==
  /\ services = <<>>
  /\ service_statuses = <<>>
  /\ processes = <<>>
  /\ running = FALSE
  /\ main_pc = "none"
  /\ restarts = <<>>
InitProc == InitThreads /\ InitNoManager

\* the stored preferences a search with this context reads
StoredFor(context, prefs) ==
  [u \in {v \in DOMAIN prefs : Get(context, "user_id", "") = v} |-> prefs[u]]

\* search(query), with the external calls failing as e says; a behaviour
\* holds at most max_searches searches
Search(query, e, max_searches) ==
  LET out == SearchCall(query, data_dir, vector_db, e, user_preferences)
  IN /\ clock < max_searches
     /\ clock' = clock + 1
     /\ last' = [op |-> "search", query |-> query,
                 prefs |-> StoredFor(query.personalization_context,
                                     user_preferences),
                 env |-> e, out |-> out]
     /\ search_history' =
          IF out.raised THEN search_history
          ELSE RecordSearch(search_history, query, out.analytics, clock)
     /\ UNCHANGED <<data_dir, vector_db, user_preferences, inflight>>
     /\ UNCHANGED <<aiVars, discVars>>
     /\ UNCHANGED <<opsVars, procVars>>

\* set_user_preferences(user_id, preferences)
SetUserPreferences(user_id, preferences) ==
  /\ user_preferences' =
       [u \in DOMAIN user_preferences \cup {user_id} |->
          IF u = user_id THEN preferences ELSE user_preferences[u]]
  /\ UNCHANGED <<data_dir, vector_db, search_history, clock, last, inflight>>
  /\ UNCHANGED <<aiVars, discVars>>
  /\ UNCHANGED <<opsVars, procVars>>

Init == InitSearch /\ InitAI /\ InitDisc /\ InitOps /\ InitProc

\* the engines over no document file and an empty index
InitEmptyInstallation == Init /\ data_dir = <<>> /\ vector_db = <<>>

Next == \E query \in Queries, e \in Envs : Search(query, e, MaxSearches)

Spec == Init /\ [][Next]_vars

\* AdvancedSearchEngine over an installation with null metadata
InitNull ==
  /\ \E inst \in NullInstallations : data_dir = inst[1] /\ vector_db = inst[2]
  /\ search_history = <<>>
  /\ user_preferences = <<>>
  /\ clock = 0
  /\ last = NoCall
  /\ inflight = Idle
  /\ InitAI /\ InitDisc /\ InitOps /\ InitProc

SpecNull == InitNull /\ [][Next]_vars

\* get_search_analytics(limit)
GetSearchAnalytics(limit) ==
  /\ last' = [op |-> "analytics", limit |-> limit,
              returned |-> LastN(search_history, limit),
              history |-> search_history]
  /\ UNCHANGED <<data_dir, vector_db, search_history, user_preferences, clock,
                 inflight>>
  /\ UNCHANGED <<aiVars, discVars>>
  /\ UNCHANGED <<opsVars, procVars>>

NoFailure == [sem |-> FALSE, kw |-> FALSE]

NextPers ==
  \/ \E query \in PersQueries : Search(query, NoFailure, MaxSearches)
  \/ \E input \in PreferenceInputs : SetUserPreferences(input[1], input[2])

SpecPers == Init /\ [][NextPers]_vars

HistQueries ==
  { [text |-> t, filters |-> <<>>, limit |-> 1, offset |-> 0,
     personalization_context |-> <<>>] : t \in Texts }
AnalyticsLimits == 0..3

NextHist ==
  \/ \E query \in HistQueries : Search(query, NoFailure, MaxHistSearches)
  \/ \E limit \in AnalyticsLimits : GetSearchAnalytics(limit)

SpecHist == Init /\ [][NextHist]_vars

\* installations whose index holds entries of different ages
AgedInstallations ==
  { <<<<>>, <<EntryOldNear, EntryNewFar>>>>,
    <<<<Line0, Line2>>, <<EntryNewFar, Entry3, EntryOldNear>>>> }

InitAged ==
  /\ \E inst \in AgedInstallations : data_dir = inst[1] /\ vector_db = inst[2]
  /\ search_history = <<>>
  /\ user_preferences = <<>>
  /\ clock = 0
  /\ last = NoCall
  /\ inflight = Idle
  /\ InitAI /\ InitDisc /\ InitOps /\ InitProc

SpecAged == InitAged /\ [][Next]_vars

\* searches per behaviour of SpecSwap
MaxSwapSearches == 2

\* search(query) up to the return of _keyword_search: the first call of
\* _load_documents_for_search has read the files of data_dir
SearchLoadKeyword(query, e) ==
  /\ inflight = Idle
  /\ clock < MaxSwapSearches
  /\ inflight' = [pc |-> "keyword_loaded", query |-> query, env |-> e,
                  keyword_dir |-> data_dir]
  /\ UNCHANGED <<data_dir, vector_db, search_history, user_preferences, clock,
                 last>>
  /\ UNCHANGED <<aiVars, discVars>>
  /\ UNCHANGED <<opsVars, procVars>>

\* an export run writes the *.jsonl files of data_dir anew
ReplaceCatalog(dir) ==
  /\ dir # data_dir
  /\ data_dir' = dir
  /\ UNCHANGED <<vector_db, search_history, user_preferences, clock, last,
                 inflight>>
  /\ UNCHANGED <<aiVars, discVars>>
  /\ UNCHANGED <<opsVars, procVars>>

\* the rest of search(query): _metadata_search reads the files of data_dir
\* again, then the results are combined, ranked, paginated and recorded
SearchFinish ==
  LET out == SearchCallOver(inflight.query, inflight.keyword_dir, data_dir,
                            vector_db, inflight.env, user_preferences)
  IN /\ inflight # Idle
     /\ clock' = clock + 1
     /\ last' = [op |-> "search", query |-> inflight.query,
                 prefs |-> StoredFor(inflight.query.personalization_context,
                                     user_preferences),
                 env |-> inflight.env, out |-> out,
                 keyword_documents |->
                   LoadDocumentsForSearch(inflight.keyword_dir),
                 metadata_documents |-> LoadDocumentsForSearch(data_dir)]
     /\ search_history' =
          IF out.raised THEN search_history
          ELSE RecordSearch(search_history, inflight.query, out.analytics,
                            clock)
     /\ inflight' = Idle
     /\ UNCHANGED <<data_dir, vector_db, user_preferences>>
     /\ UNCHANGED <<aiVars, discVars>>
     /\ UNCHANGED <<opsVars, procVars>>

SwapQueries ==
  { [text |-> t, filters |-> <<>>, limit |-> 5, offset |-> 0,
     personalization_context |-> <<>>] : t \in Texts }

NextSwap ==
  \/ \E query \in SwapQueries : SearchLoadKeyword(query, NoFailure)
  \/ \E inst \in Installations : ReplaceCatalog(inst[1])
  \/ SearchFinish

SpecSwap == Init /\ [][NextSwap]_vars

\* rankings per behaviour of SpecRank
MaxRankings == 1

\* candidates of _advanced_ranking: the maps that give some of these
\* relevance factors this value, at these ages in days
FactorKeys ==
  {"semantic_similarity", "keyword_similarity", "metadata_match",
   "title_match"}
FactorMaps == UNION {[K -> {400}] : K \in SUBSET FactorKeys}
OtherFactorValues == {-300, 1000}
CandidateAges == {0, 73}

CandidateResult(id, relevance_factors, days_old) ==
  [id |-> id, content |-> [head |-> "A", tail |-> "1"], source |-> Paperless,
   type |-> Document, score |-> 0, metadata |-> <<>>, tags |-> <<>>,
   timestamp |-> days_old, relevance_factors |-> relevance_factors]

\* _advanced_ranking(results, query) on a list of candidates
RankCandidates(results) ==
  /\ clock < MaxRankings
  /\ clock' = clock + 1
  /\ last' = [op |-> "rank", ranked |-> AdvancedRanking(results)]
  /\ UNCHANGED <<data_dir, vector_db, search_history, user_preferences,
                 inflight>>
  /\ UNCHANGED <<aiVars, discVars>>
  /\ UNCHANGED <<opsVars, procVars>>

\* results of a RAG engine by content, tags, age in days and similarity
RagResult(text, tags, days_old, similarity) ==
  [content |-> [head |-> "A", tail |-> "1", words |-> text],
   metadata |-> [source |-> StrV(Paperless), tags |-> ListV(tags),
                 created_date |-> [kind |-> "date", val |-> <<days_old>>]],
   similarity |-> similarity]
RankTags == { << <<"ml">>, <<"cat">> >>, << <<"dog">> >> }
RankAges == {0, 400}
RankSimilarities == {200, 900}
RankContexts == { <<>>, [tags |-> ListV(<< <<"ml">>, <<"cat">> >>)] }

\* _rank_results(results, query, enhanced_query) on a list of results
RankResultsOf(results, query, context) ==
  \E expanded \in Orderings(ExpandedTermSet(LowerSplit(query))) :
    LET enhanced_query == EnhanceQuery(query, context, expanded, clock)
    IN /\ clock < MaxRankings
       /\ clock' = clock + 1
       /\ ai_last' = [op |-> "rank", query |-> query, context |-> context,
                      ranked |-> RankResults(results, query, enhanced_query)]
       /\ UNCHANGED <<ai_rag, ai_cache_size, query_cache, ai_history>>
       /\ UNCHANGED <<data_dir, vector_db, search_history, user_preferences,
                      last, inflight>>
       /\ UNCHANGED discVars
       /\ UNCHANGED <<opsVars, procVars>>

\* the rankers applied to two candidates, the second the first with one
\* factor or its age changed, and to two results that differ in one respect
NextRank ==
  \/ \E rf \in FactorMaps, days_old \in CandidateAges :
       \/ \E f \in DOMAIN rf, v \in OtherFactorValues :
            RankCandidates(<<CandidateResult(1, rf, days_old),
                             CandidateResult(2, [rf EXCEPT ![f] = v], days_old)>>)
       \/ \E other \in CandidateAges :
            RankCandidates(<<CandidateResult(1, rf, days_old),
                             CandidateResult(2, rf, other)>>)
  \/ \E text \in Texts, tags \in RankTags, days_old \in RankAges,
        similarity \in RankSimilarities, context \in RankContexts :
       \/ \E other \in Texts :
            RankResultsOf(<<RagResult(text, tags, days_old, similarity),
                            RagResult(other, tags, days_old, similarity)>>,
                          <<"ML">>, context)
       \/ \E other \in RankTags :
            RankResultsOf(<<RagResult(text, tags, days_old, similarity),
                            RagResult(text, other, days_old, similarity)>>,
                          <<"ML">>, context)
       \/ \E other \in RankAges :
            RankResultsOf(<<RagResult(text, tags, days_old, similarity),
                            RagResult(text, tags, other, similarity)>>,
                          <<"ML">>, context)
       \/ \E other \in RankSimilarities :
            RankResultsOf(<<RagResult(text, tags, days_old, similarity),
                            RagResult(text, tags, days_old, other)>>,
                          <<"ML">>, context)

SpecRank == InitEmptyInstallation /\ [][NextRank]_vars

\* intelligent_search(query, context, filters); the clock is the
\* datetime.now() of its record
IntelligentSearch(query, context, filters, max_searches) ==
  \E expanded \in Orderings(ExpandedTermSet(LowerSplit(query))) :
    LET enhanced_query == EnhanceQuery(query, context, expanded, clock)
        out == IntelligentSearchCall(ai_rag, query, enhanced_query, filters)
    IN /\ clock < max_searches
       /\ clock' = clock + 1
       /\ query_cache' =
            CacheQuery(query_cache, ai_cache_size, query, enhanced_query)
       /\ ai_history' =
            AIRecordSearch(ai_history, query, context, Len(out.results), clock)
       /\ ai_last' = [op |-> "intelligent_search", query |-> query,
                      context |-> context, filters |-> filters,
                      enhanced_query |-> enhanced_query, out |-> out]
       /\ UNCHANGED <<ai_rag, ai_cache_size>>
       /\ UNCHANGED <<data_dir, vector_db, search_history, user_preferences,
                      last, inflight>>
       /\ UNCHANGED discVars
       /\ UNCHANGED <<opsVars, procVars>>

\* an engine constructed with any of the RAG engines, next to an
\* AdvancedSearchEngine over an empty installation
InitAIEngines ==
  /\ InitSearch /\ data_dir = <<>> /\ vector_db = <<>>
  /\ ai_rag \in RagEngines
  /\ ai_cache_size = AI_CACHE_SIZE
  /\ query_cache = <<>>
  /\ ai_history = <<>>
  /\ ai_last = NoCall
  /\ InitDisc
  /\ InitOps /\ InitProc

NextAI ==
  \E query \in AIQueries, context \in AIContexts, filters \in AIFilters :
    IntelligentSearch(query, context, filters, MaxAISearches)

SpecAI == InitAIEngines /\ [][NextAI]_vars

\* get_recommendations(content_id, limit)
GetRecommendations(content_id, limit) ==
  /\ discovery_engine
  /\ disc_last' =
       [op |-> "recommendations", content_id |-> content_id, limit |-> limit,
        returned |-> GetRecommendationsResult(content_items, content_graph,
                                              content_id, limit)]
  /\ UNCHANGED <<content_items, content_graph, clusters, discovery_engine>>
  /\ UNCHANGED <<searchVars, aiVars>>
  /\ UNCHANGED <<opsVars, procVars>>

\* get_trending_content(time_window, limit)
GetTrendingContent(time_window, limit) ==
  LET out == TrendingContent(content_items, time_window, limit)
  IN /\ discovery_engine
     /\ content_items' = out.content_items
     /\ disc_last' = [op |-> "trending", time_window |-> time_window,
                      limit |-> limit, before |-> content_items,
                      returned |-> out.returned]
     /\ UNCHANGED <<content_graph, clusters, discovery_engine>>
     /\ UNCHANGED <<searchVars, aiVars>>
     /\ UNCHANGED <<opsVars, procVars>>

\* search_similar_content(query, limit)
SearchSimilarContent(query, limit) ==
  /\ discovery_engine
  /\ disc_last' =
       [op |-> "similar", query |-> query, limit |-> limit,
        returned |-> SearchSimilarContentResult(content_items, content_graph,
                                                query, limit)]
  /\ UNCHANGED <<content_items, content_graph, clusters, discovery_engine>>
  /\ UNCHANGED <<searchVars, aiVars>>
  /\ UNCHANGED <<opsVars, procVars>>

\* get_trend_analysis(time_window)
GetTrendAnalysis(time_window) ==
  /\ discovery_engine
  /\ disc_last' = [op |-> "trends", time_window |-> time_window,
                   returned |-> TrendAnalysis(content_items, time_window)]
  /\ UNCHANGED <<content_items, content_graph, clusters, discovery_engine>>
  /\ UNCHANGED <<searchVars, aiVars>>
  /\ UNCHANGED <<opsVars, procVars>>

\* get_content_clusters()
GetContentClusters ==
  /\ discovery_engine
  /\ disc_last' = [op |-> "clusters", returned |-> clusters]
  /\ UNCHANGED <<content_items, content_graph, clusters, discovery_engine>>
  /\ UNCHANGED <<searchVars, aiVars>>
  /\ UNCHANGED <<opsVars, procVars>>

\* get_cluster_content(cluster_id)
GetClusterContent(cluster_id) ==
  /\ discovery_engine
  /\ disc_last' = [op |-> "cluster_content", cluster_id |-> cluster_id,
                   returned |-> ClusterContent(content_items, clusters,
                                               cluster_id)]
  /\ UNCHANGED <<content_items, content_graph, clusters, discovery_engine>>
  /\ UNCHANGED <<searchVars, aiVars>>
  /\ UNCHANGED <<opsVars, procVars>>

\* initialize_discovery_engine over the catalog dir: DiscoveryEngine()
\* replaces the global engine when it returns, and the request fails with
\* the engine left as it was when it raises
InitializeDiscoveryEngine(dir) ==
  LET built == Construct(dir)
  IN /\ IF built.ok
        THEN /\ content_items' = built.val.content_items
             /\ content_graph' = built.val.content_graph
             /\ \E labels \in KMeansLabels(built.val.content_items) :
                  clusters' = GenerateClusters(built.val.content_items, labels)
             /\ discovery_engine' = TRUE
        ELSE UNCHANGED <<content_items, content_graph, clusters,
                         discovery_engine>>
     /\ disc_last' = [op |-> "init", dir |-> dir, raised |-> ~built.ok]
     /\ UNCHANGED <<searchVars, aiVars>>
     /\ UNCHANGED <<opsVars, procVars>>

NextBuild == \E dir \in BuildCatalogs : InitializeDiscoveryEngine(dir)

SpecBuild == InitEmptyInstallation /\ [][NextBuild]_vars

\* a DiscoveryEngine constructed over any of the catalogs, next to the two
\* search engines over an empty installation
InitDiscoveryEngines ==
  /\ InitSearch /\ data_dir = <<>> /\ vector_db = <<>>
  /\ InitAI
  /\ \E dir \in Catalogs :
       /\ Construct(dir).ok
       /\ content_items = Construct(dir).val.content_items
       /\ content_graph = Construct(dir).val.content_graph
       /\ \E labels \in KMeansLabels(Construct(dir).val.content_items) :
            clusters = GenerateClusters(Construct(dir).val.content_items,
                                        labels)
  /\ discovery_engine = TRUE
  /\ disc_last = NoCall
  /\ InitOps /\ InitProc

NextDisc ==
  \/ \E content_id \in ContentIds, limit \in RecommendationLimits :
       GetRecommendations(content_id, limit)
  \/ \E time_window \in TimeWindows, limit \in TrendingLimits :
       GetTrendingContent(time_window, limit)
  \/ \E time_window \in TimeWindows : GetTrendAnalysis(time_window)
  \/ \E query \in SimilarQueries, limit \in TrendingLimits :
       SearchSimilarContent(query, limit)
  \/ GetContentClusters
  \/ \E cluster_id \in ClusterIds : GetClusterContent(cluster_id)

SpecDisc == InitDiscoveryEngines /\ [][NextDisc]_vars

\* searches per behaviour of SpecFilter
MaxFilterSearches == 1

\* the i-th result of a large index: the results of "photo" and "image" are
\* nearer to the query and unfiled, those of the other terms are filed
NumberedResult(i) ==
  [content |-> [head |-> ToString(i), tail |-> "", words |-> <<"x">>],
   metadata |->
     IF i <= 20 THEN [source |-> StrV(Paperless)]
     ELSE [source |-> StrV(Paperless), category |-> StrV(<<"work">>)],
   similarity |-> 1000 - 10 * i]

\* an engine whose search(query, top_k=10) returns up to ten results per term
LargeEngine ==
  [kind |-> "table",
   results |->
     [t \in {<<"photo">>, <<"image">>, <<"picture">>, <<"snapshot">>} |->
        CASE t = <<"photo">> -> [k \in 1..10 |-> NumberedResult(k)]
          [] t = <<"image">> -> [k \in 1..10 |-> NumberedResult(10 + k)]
          [] t = <<"picture">> -> <<NumberedResult(21)>>
          [] OTHER -> <<NumberedResult(22)>>]]

FilterQueries == { <<"photo">>, <<"ML">> }
ResultFilters ==
  { <<>>,
    [category |-> StrV(<<"work">>)],
    [category |-> StrV(<<"home">>)],
    [source |-> StrV(Paperless)],
    [category |-> ListV(<< <<"work">>, <<"home">> >>)] }

InitFilter ==
  /\ InitSearch /\ data_dir = <<>> /\ vector_db = <<>>
  /\ ai_rag = LargeEngine
  /\ ai_cache_size = AI_CACHE_SIZE
  /\ query_cache = <<>>
  /\ ai_history = <<>>
  /\ ai_last = NoCall
  /\ InitDisc /\ InitOps /\ InitProc

NextFilter ==
  \E query \in FilterQueries, context \in AIContexts,
     filters \in ResultFilters :
    IntelligentSearch(query, context, filters, MaxFilterSearches)

SpecFilter == InitFilter /\ [][NextFilter]_vars

\* calls of enhance_query per behaviour of SpecCache
MaxEnhanceCalls == 4

\* cache_size of the configuration file, or the default
CacheSizes == {1, 2, 3, AI_CACHE_SIZE}
EnhancedQueries == { <<"ML">>, <<"cat">>, <<"work">>, <<"home">> }

CacheKeys(cache) == {cache[i][1] : i \in 1..Len(cache)}

\* when each key of the cache after _cache_query(query, ...) was inserted:
\* `del` removes the first key of a full dict, an assignment to a key that
\* is present keeps its place, any other assignment inserts now
InsertedAt(cache, cache_size, query, inserted_at, now) ==
  LET evicted == IF Len(cache) >= cache_size THEN {cache[1][1]} ELSE {}
      kept == CacheKeys(cache) \ evicted
  IN [k \in kept \cup {query} |-> IF k \in kept THEN inserted_at[k] ELSE now]

\* enhance_query(query, context)
EnhanceQueryCall(query, context) ==
  \E expanded \in Orderings(ExpandedTermSet(LowerSplit(query))) :
    LET enhanced_query == EnhanceQuery(query, context, expanded, clock)
        inserted_at == IF "inserted_at" \in DOMAIN ai_last
                       THEN ai_last.inserted_at ELSE <<>>
    IN /\ clock < MaxEnhanceCalls
       /\ clock' = clock + 1
       /\ query_cache' =
            CacheQuery(query_cache, ai_cache_size, query, enhanced_query)
       /\ ai_last' = [op |-> "enhance", query |-> query,
                      before |-> query_cache,
                      before_inserted_at |-> inserted_at,
                      inserted_at |->
                        InsertedAt(query_cache, ai_cache_size, query,
                                   inserted_at, clock),
                      returned |-> enhanced_query]
       /\ UNCHANGED <<ai_rag, ai_cache_size, ai_history>>
       /\ UNCHANGED <<data_dir, vector_db, search_history, user_preferences,
                      last, inflight>>
       /\ UNCHANGED <<discVars, opsVars, procVars>>

\* engines constructed with a configuration file or without one
InitCache ==
  /\ InitSearch /\ data_dir = <<>> /\ vector_db = <<>>
  /\ ai_rag = NoEngine
  /\ ai_cache_size \in CacheSizes
  /\ query_cache = <<>>
  /\ ai_history = <<>>
  /\ ai_last = NoCall
  /\ InitDisc /\ InitOps /\ InitProc

NextCache ==
  \E query \in EnhancedQueries, context \in AIContexts :
    EnhanceQueryCall(query, context)

SpecCache == InitCache /\ [][NextCache]_vars

----------------------------------------------------------------------------
(* NetworkDocumentIngestion (network-ingestion/network_document_ingestion.py).
   A file of the source tree has a name, a suffix, a size in MB, the SHA-256
   of its content and whether stat() succeeds on it. *)

MAX_FILE_SIZE_MB == 100       \* max_file_size_mb: int = 100

supported_extensions ==
  {".pdf", ".doc", ".docx", ".txt", ".rtf", ".odt", ".html", ".htm"}

\* file_path.suffix.lower()
LowerSuffix(suffix) ==
  CASE suffix = ".PDF" -> ".pdf"
    [] suffix = ".TXT" -> ".txt"
    [] OTHER -> suffix

\* the checks of the loop of scan_source_directory that `continue`
ScanKeeps(file) ==
  /\ LowerSuffix(file.suffix) \in supported_extensions
  /\ file.stat_ok
  /\ file.size_mb <= MAX_FILE_SIZE_MB

\* DocumentInfo(...) of scan_source_directory
DocumentInfoOf(file) ==
  [filename |-> file.filename, file_size |-> file.size_mb,
   hash |-> file.hash, processing_status |-> "pending"]

\* scan_source_directory: the list it builds, or the FileNotFoundError it
\* re-raises when the source directory does not exist
ScanSourceDirectoryTry(tree) ==
  IF ~tree.exists THEN Raised
  ELSE Ok([i \in 1..Len(SelectSeq(tree.files, ScanKeeps)) |->
             DocumentInfoOf(SelectSeq(tree.files, ScanKeeps)[i])])

\* _check_duplicates: the documents whose hash is in the documents table
\* become 'skipped', whatever their status was
CheckDuplicates(docs, db) ==
  [i \in 1..Len(docs) |->
     IF docs[i].hash \in db
     THEN [docs[i] EXCEPT !.processing_status = "skipped"]
     ELSE docs[i]]

SkippedByCheck(docs, db) ==
  Cardinality({i \in 1..Len(docs) : docs[i].hash \in db})

\* the pool of process_documents: every pending document is processed, and
\* _process_single_document returns False on those whose copy fails
ProcessPending(docs, failing) ==
  [i \in 1..Len(docs) |->
     IF docs[i].processing_status # "pending" THEN docs[i]
     ELSE IF i \in failing
     THEN [docs[i] EXCEPT !.processing_status = "failed"]
     ELSE [docs[i] EXCEPT !.processing_status = "completed"]]

PendingOf(docs) ==
  {i \in 1..Len(docs) : docs[i].processing_status = "pending"}

\* _update_database: a row per hash
UpdateDatabase(docs, db) == db \cup {docs[i].hash : i \in 1..Len(docs)}

\* get_processing_status
ProcessingStatus(stats) ==
  [total_files |-> stats.total_files,
   processed_files |-> stats.processed_files,
   failed_files |-> stats.failed_files,
   skipped_files |-> stats.skipped_files,
   remaining_files |-> stats.total_files - stats.processed_files
                       - stats.failed_files - stats.skipped_files]

\* source trees
File(filename, suffix, size_mb, hash) ==
  [filename |-> filename, suffix |-> suffix, size_mb |-> size_mb,
   hash |-> hash, stat_ok |-> TRUE]
Document1 == File("document1.txt", ".txt", 1, "h1")
ReportPdf == File("report.PDF", ".PDF", 100, "h2")
CopyOfDocument1 == File("copy.txt", ".txt", 1, "h1")
LargeFile == File("large_file.txt", ".txt", 101, "h3")
Unsupported == File("unsupported.xyz", ".xyz", 1, "h4")
Unreadable ==
  [filename |-> "locked.doc", suffix |-> ".doc", size_mb |-> 1,
   hash |-> "h5", stat_ok |-> FALSE]

NoDirectory == [exists |-> FALSE, files |-> <<>>]
Tree(files) == [exists |-> TRUE, files |-> files]
SourceTrees ==
  { NoDirectory, Tree(<<>>), Tree(<<Unsupported, LargeFile>>),
    Tree(<<Document1, ReportPdf, LargeFile, Unsupported>>),
    Tree(<<Document1, Unreadable, CopyOfDocument1>>) }

\* calls of process_documents per behaviour of SpecIngest
MaxProcessCalls == 2

\* scan_source_directory()
ScanSourceDirectory ==
  LET scanned == ScanSourceDirectoryTry(source_tree)
  IN /\ IF scanned.ok
        THEN /\ ingest_documents' = scanned.val
             /\ processing_stats' =
                  [processing_stats EXCEPT !.total_files = Len(scanned.val)]
        ELSE UNCHANGED <<ingest_documents, processing_stats>>
     /\ ingest_last' = [op |-> "scan", tree |-> source_tree,
                        raised |-> ~scanned.ok, returned |-> scanned.val]
     /\ UNCHANGED <<source_tree, index_db>>
     /\ UNCHANGED <<searchVars, aiVars, discVars, procVars>>

\* process_documents(), the copies of the documents of `failing` failing
ProcessDocuments(failing) ==
  LET checked == CheckDuplicates(ingest_documents, index_db)
      processed == ProcessPending(checked, failing)
      done == PendingOf(checked) \ failing
      stats ==
        [processing_stats EXCEPT
           !.skipped_files = @ + SkippedByCheck(ingest_documents, index_db),
           !.processed_files = @ + Cardinality(done),
           !.failed_files = @ + Cardinality(PendingOf(checked) \cap failing)]
  IN /\ failing \subseteq PendingOf(checked)
     /\ clock < MaxProcessCalls
     /\ clock' = clock + 1
     /\ ingest_documents' = processed
     /\ processing_stats' = stats
     /\ index_db' = UpdateDatabase(processed, index_db)
     /\ ingest_last' = [op |-> "process", before |-> ingest_documents,
                        statistics |-> stats]
     /\ UNCHANGED source_tree
     /\ UNCHANGED <<data_dir, vector_db, search_history, user_preferences,
                    last, inflight>>
     /\ UNCHANGED <<aiVars, discVars, procVars>>

\* get_processing_status()
GetProcessingStatus ==
  /\ ingest_last' = [op |-> "status",
                     returned |-> ProcessingStatus(processing_stats)]
  /\ UNCHANGED <<source_tree, ingest_documents, processing_stats, index_db>>
  /\ UNCHANGED <<searchVars, aiVars, discVars, procVars>>

InitIngest ==
  /\ InitSearch /\ data_dir = <<>> /\ vector_db = <<>>
  /\ InitAI /\ InitDisc
  /\ source_tree \in SourceTrees
  /\ ingest_documents = <<>>
  /\ processing_stats = NoStats
  /\ index_db = {}
  /\ ingest_last = NoCall
  /\ InitProc

NextIngest ==
  \/ ScanSourceDirectory
  \/ \E failing \in SUBSET (1..3) : ProcessDocuments(failing)
  \/ GetProcessingStatus

SpecIngest == InitIngest /\ [][NextIngest]_vars

----------------------------------------------------------------------------
(* Claims about AdvancedSearchEngine.search *)

Searched == last.op = "search" /\ ~last.out.raised

\* the results that are the first of their (content[:100], source) pair
FirstOfEachPair(results) ==
  LET Pair(r) == <<First100(r.content), r.source>>
      first == {i \in 1..Len(results) :
                  \A j \in 1..(i - 1) : Pair(results[j]) # Pair(results[i])}
      Pick(n) == CHOOSE i \in first : Cardinality({j \in first : j < i}) = n - 1
  IN [n \in 1..Cardinality(first) |-> results[Pick(n)]]

\* C1: search returns at most `limit` results, and they are the elements
\* [offset, offset + limit) of the ranked, deduplicated, filtered and
\* personalized candidate list; an offset beyond that list gives an empty page.
C1_PageOfDeduplicatedList ==
  Searched =>
    LET q == last.query
        candidates ==
          ApplyPersonalization(
            AdvancedRanking(
              ApplyFilters(FirstOfEachPair(last.out.results), q.filters)),
            q.personalization_context, last.prefs)
        page == last.out.final_results
    IN /\ Len(page) <= q.limit
       /\ page = Slice(candidates, q.offset, q.offset + q.limit)
       /\ (q.offset >= Len(candidates) => page = <<>>)

\* C2: no two results of the fused list share the same (first 100 characters
\* of content, source) pair.
C2_NoDuplicatePairs ==
  Searched =>
    LET fused == last.out.personalized_results
    IN \A i, j \in 1..Len(fused) :
         i # j => <<First100(fused[i].content), fused[i].source>>
                    # <<First100(fused[j].content), fused[j].source>>

\* the composite score the Rank step owes a candidate: each factor is the
\* score its strategy produced, a factor the candidate lacks counts 0
OwedScore(candidate, metadata_results) ==
  LET rf == candidate.relevance_factors
      semantic == Get(rf, "semantic_similarity", 0)
      keyword == Get(rf, "keyword_similarity", 0)
      metadata == IF candidate \in Range(metadata_results)
                  THEN candidate.score ELSE 0
      freshness == Max(0, (1000 * (365 - candidate.timestamp)) \div 365)
  IN (semantic * 4 + keyword * 3 + metadata * 2 + freshness) \div 10

\* ranked is the list of candidates, each with the score Owed gives it
RankedAs(ranked, candidates, metadata_results) ==
  /\ Len(ranked) = Len(candidates)
  /\ \A i \in 1..Len(ranked) :
       \E j \in 1..Len(candidates) :
         /\ ranked[i].id = candidates[j].id
         /\ \A f \in DOMAIN candidates[j].relevance_factors :
              /\ f \in DOMAIN ranked[i].relevance_factors
              /\ ranked[i].relevance_factors[f]
                   = candidates[j].relevance_factors[f]
         /\ DOMAIN ranked[i].relevance_factors
              \subseteq DOMAIN candidates[j].relevance_factors \cup {"freshness"}
         /\ ranked[i].score = OwedScore(candidates[j], metadata_results)

\* C3: after the Rank step every result's score is semantic x 0.4 + keyword
\* x 0.3 + metadata match x 0.2 + freshness x 0.1, the metadata strategy's
\* summed field score being the metadata-match factor.
C3_CompositeScore ==
  Searched =>
    RankedAs(last.out.ranked_results, last.out.filtered_results,
             last.out.metadata_results)

\* C4: the ranked list is sorted by score, descending, and results of equal
\* score are in the order of their item ids.
C4_SortedTiesById ==
  Searched =>
    LET ranked == last.out.personalized_results
    IN \A i, j \in 1..Len(ranked) :
         i < j =>
           /\ ranked[i].score >= ranked[j].score
           /\ ranked[i].score = ranked[j].score => ranked[i].id <= ranked[j].id

\* C5: with a non-empty filter map, a result is kept only if its metadata
\* has every filter key with the required value (or one of the allowed list).
C5_FilterRequiresKey ==
  (Searched /\ DOMAIN last.query.filters # {}) =>
    LET kept == last.out.filtered_results
        filters == last.query.filters
    IN \A i \in 1..Len(kept) :
         \A key \in DOMAIN filters :
           /\ key \in DOMAIN kept[i].metadata
           /\ IF filters[key].kind = "list"
              THEN /\ kept[i].metadata[key].kind = "str"
                   /\ kept[i].metadata[key].val[1] \in Range(filters[key].val)
              ELSE kept[i].metadata[key] = filters[key]

\* the strategies of the last search, before their except clause
SemanticOfLast == SemanticTry(last.query, vector_db, last.env)
KeywordOfLast ==
  KeywordTry(last.query, LoadDocumentsForSearch(data_dir), last.env)
MetadataOfLast == MetadataTry(last.query, LoadDocumentsForSearch(data_dir))

\* C6: a strategy that fails contributes no candidate, the other strategies
\* contribute theirs, and search returns.
C6_StrategyFailureIsContained ==
  last.op = "search" =>
    /\ ~last.out.raised
    /\ last.out.semantic_results
         = (IF SemanticOfLast.ok THEN SemanticOfLast.val ELSE <<>>)
    /\ last.out.keyword_results
         = (IF KeywordOfLast.ok THEN KeywordOfLast.val ELSE <<>>)
    /\ last.out.metadata_results
         = (IF MetadataOfLast.ok THEN MetadataOfLast.val ELSE <<>>)
    /\ last.out.results
         = last.out.semantic_results \o last.out.keyword_results
             \o last.out.metadata_results

\* a search whose semantic strategy failed and whose two other strategies
\* both contributed candidates that reach the page
C6_Witness ==
  /\ Searched
  /\ ~SemanticOfLast.ok
  /\ last.out.keyword_results # <<>>
  /\ last.out.metadata_results # <<>>
  /\ last.out.final_results # <<>>

----------------------------------------------------------------------------
(* Claims about personalization *)

\* the search read stored preferences of the user id its context carries
PersonalizedSearch ==
  /\ Searched
  /\ "user_id" \in DOMAIN last.query.personalization_context
  /\ last.query.personalization_context["user_id"] # ""
  /\ last.query.personalization_context["user_id"] \in DOMAIN last.prefs

PrefsOfLast == last.prefs[last.query.personalization_context["user_id"]]

Preferred(preferences, key, x) == x \in Range(Get(preferences, key, <<>>))

\* +0.2 for a preferred type, +0.1 for each tag that is preferred, +0.15 for
\* a preferred source
OwedBoost(r, preferences) ==
  (IF Preferred(preferences, "preferred_types", r.type) THEN 200 ELSE 0)
  + 100 * Cardinality({k \in 1..Len(r.tags) :
                         Preferred(preferences, "preferred_tags", r.tags[k])})
  + (IF Preferred(preferences, "preferred_sources", r.source) THEN 150 ELSE 0)

\* `after` is the ranked result `before` with its boost added
IsBoostOf(after, before, preferences) ==
  /\ after.id = before.id
  /\ after.score = before.score + OwedBoost(before, preferences)
  /\ \A f \in DOMAIN before.relevance_factors :
       /\ f \in DOMAIN after.relevance_factors
       /\ after.relevance_factors[f] = before.relevance_factors[f]

C9_WitnessTags ==
  /\ PersonalizedSearch
  /\ \E i \in 1..Len(last.out.ranked_results) :
       OwedBoost(last.out.ranked_results[i], PrefsOfLast) >= 200
       /\ ~Preferred(PrefsOfLast, "preferred_types",
                     last.out.ranked_results[i].type)

----------------------------------------------------------------------------
(* Claims about the search history *)

\* C8: get_search_analytics(N) returns the most recent min(N, length)
\* records in order, nothing for N = 0, and leaves the history unchanged.
C8_MostRecentN ==
  last.op = "analytics" =>
    LET n == Min(last.limit, Len(last.history))
    IN /\ Len(last.returned) = n
       /\ \A i \in 1..n :
            last.returned[i] = last.history[Len(last.history) - n + i]
       /\ search_history = last.history

----------------------------------------------------------------------------
(* Claims about the failures of AdvancedSearchEngine.search *)

EmptyCatalog == data_dir = <<>> /\ vector_db = <<>>

\* C12: with an empty catalog, search(q) returns an empty result list and
\* analytics with total_results = 0, raises no exception, and appends one
\* record, that of this search, to the search history.
C12_EmptyCatalogSearch ==
  (last.op = "search" /\ EmptyCatalog)
  => /\ ~last.out.raised
     /\ last.out.final_results = <<>>
     /\ last.out.analytics.total_results = 0
     /\ Len(search_history) = clock
     /\ search_history[clock].query = last.query.text
     /\ search_history[clock].timestamp = clock - 1
     /\ search_history[clock].analytics = last.out.analytics

C12_Witness ==
  /\ last.op = "search" /\ EmptyCatalog
  /\ last.env.sem /\ last.env.kw
  /\ DOMAIN last.query.filters # {}
  /\ Len(search_history) = 1

\* C13: a failure inside the filter, rank, personalize, analytics or record
\* step of search is contained: search returns a result list to the caller
\* and never propagates an exception.
C13_StepFailureIsContained ==
  last.op = "search" =>
    /\ ~last.out.raised
    /\ Len(last.out.final_results) <= last.query.limit

----------------------------------------------------------------------------
(* Claims about the search histories *)

\* C7: after n completed searches on one engine, its search history holds
\* exactly the records of the most recent min(n, 1000) searches, in
\* completion order.  Here the engine is AIEnhancedSearch, n is the clock,
\* and the record of the k-th search carries the timestamp k - 1.
C7_HistoryIsLastThousand ==
  /\ Len(ai_history) = Min(clock, HISTORY_CAP)
  /\ \A i \in 1..Len(ai_history) :
       ai_history[i].timestamp = clock - Len(ai_history) + i - 1

----------------------------------------------------------------------------
(* Claims about DiscoveryEngine.get_recommendations *)

\* the items other than the seed whose similarity to the seed exceeds 0.1
RelevantTo(seed) ==
  {i \in 1..Len(content_items) :
     /\ content_items[i].id # seed.id
     /\ CosineSimilarity(seed.content, content_items[i].content)
          > RELEVANCE_THRESHOLD}

\* C10: for a seed id of the catalog, get_recommendations(seed, limit)
\* returns the `limit` highest-scoring items (all if fewer) among the other
\* items whose cosine similarity to the seed exceeds 0.1, sorted by score
\* descending and without the seed, also when some of those items have no
\* edge in the similarity graph.
C10_TopRelevantItems ==
  (/\ disc_last.op = "recommendations"
   /\ \E i \in 1..Len(content_items) : content_items[i].id = disc_last.content_id)
  => LET seed == content_items[CHOOSE i \in 1..Len(content_items) :
                                 content_items[i].id = disc_last.content_id]
         relevant == RelevantTo(seed)
         returned == disc_last.returned
         Score(i) == CosineSimilarity(seed.content, content_items[i].content)
         ids == {returned[k].content_id : k \in 1..Len(returned)}
     IN /\ Len(returned) = Min(disc_last.limit, Cardinality(relevant))
        /\ Cardinality(ids) = Len(returned)
        /\ ids \subseteq {content_items[i].id : i \in relevant}
        /\ \A k \in 1..Len(returned) :
             \E i \in relevant : /\ content_items[i].id = returned[k].content_id
                                 /\ returned[k].score = Score(i)
        /\ \A k \in 1..(Len(returned) - 1) :
             returned[k].score >= returned[k + 1].score
        /\ \A i \in relevant :
             content_items[i].id \notin ids
               => \A k \in 1..Len(returned) : returned[k].score >= Score(i)

----------------------------------------------------------------------------
(* Claims about the construction of the DiscoveryEngine *)

\* C11: with an empty catalog, building the discovery engine with its graph
\* and clusters raises no error and gives an engine over empty structures
\* (from which every discovery operation returns an empty result).
C11_EmptyCatalogIsNoError ==
  (/\ disc_last.op = "init"
   /\ LoadContentLines(disc_last.dir, 0) = Ok(<<>>))
  => /\ ~disc_last.raised
     /\ discovery_engine
     /\ content_items = <<>>
     /\ content_graph.edges = <<>>
     /\ clusters = <<>>

\* the clusters that list the id
ClustersOf(id) ==
  {c \in 1..Len(clusters) : id \in Range(clusters[c].content_items)}

\* C14: after every build of the clusters over a catalog of n >= 2 items,
\* the clusters are a partition of the catalog into max(2, min(10, n div 5))
\* groups: every item id is a member of exactly one cluster, no cluster
\* lists an id outside the catalog, and the size of each cluster is the
\* number of its members.
C14_ClustersPartitionCatalog ==
  (disc_last.op = "init" /\ ~disc_last.raised /\ Len(content_items) >= 2)
  => /\ Len(clusters) = Max(2, Min(10, Len(content_items) \div 5))
     /\ \A i \in 1..Len(content_items) :
          Cardinality(ClustersOf(content_items[i].id)) = 1
     /\ \A c \in 1..Len(clusters) :
          /\ Range(clusters[c].content_items)
               \subseteq {content_items[i].id : i \in 1..Len(content_items)}
          /\ clusters[c].size = Len(clusters[c].content_items)
          /\ clusters[c].size
               = Cardinality(Range(clusters[c].content_items))

----------------------------------------------------------------------------
(* Claims about the read operations of the DiscoveryEngine *)

Trended == disc_last.op = "trending"

\* the items of the catalog, before the call, with a timestamp at or after
\* now minus the days
EligibleIds(days) ==
  {disc_last.before[i].id :
     i \in {j \in 1..Len(disc_last.before) :
              AgeHours(disc_last.before[j].timestamp) <= 24 * days}}

ReturnedIds == {disc_last.returned[k].id : k \in 1..Len(disc_last.returned)}

\* C15: every item returned by get_trending_content("1d") has a timestamp
\* within 1 day of now and is in the pool eligible for "30d"; for each of
\* the windows 1d, 7d and 30d only items with timestamp >= now - w are
\* returned, and an unrecognized window behaves exactly like "7d".
C15_TrendingWindow ==
  Trended =>
    /\ disc_last.time_window = "1d" =>
         /\ \A k \in 1..Len(disc_last.returned) :
              AgeHours(disc_last.returned[k].timestamp) <= 24
         /\ ReturnedIds \subseteq EligibleIds(30)
    /\ disc_last.time_window = "7d" => ReturnedIds \subseteq EligibleIds(7)
    /\ disc_last.time_window = "30d" => ReturnedIds \subseteq EligibleIds(30)
    /\ disc_last.time_window \notin {"1d", "7d", "30d"} =>
         /\ disc_last.returned
              = TrendingContent(disc_last.before, "7d", disc_last.limit).returned
         /\ content_items
              = TrendingContent(disc_last.before, "7d", disc_last.limit)
                  .content_items

\* a "1d" call that returns an item while the catalog holds an older one
\* that a week would admit
C15_Witness ==
  /\ Trended /\ disc_last.time_window = "1d"
  /\ disc_last.returned # <<>>
  /\ EligibleIds(7) # EligibleIds(1)

\* an unrecognized window that returns items
C15_WitnessOther ==
  /\ Trended /\ disc_last.time_window = "24h"
  /\ Len(disc_last.returned) > 1

\* C16: the read operations of the discovery engine (get_recommendations,
\* get_trending_content, get_trend_analysis, search_similar_content,
\* get_content_clusters, get_cluster_content) leave every ContentItem of
\* the catalog unchanged, its metadata map included.
C16_ReadsLeaveCatalog == [][content_items' = content_items]_vars

\* C17: the keyword strategy and the metadata strategy of one search() read
\* the same documents, also when the catalog is replaced while the search is
\* in flight
C17_OneCatalogPerSearch ==
  (last.op = "search" /\ "keyword_documents" \in DOMAIN last)
    => last.keyword_documents = last.metadata_documents

\* one more pass of the fuser (filter, rank, personalize) over results it
\* has returned
FuserPass(results, query, prefs) ==
  ApplyPersonalization(AdvancedRanking(ApplyFilters(results, query.filters)),
                       query.personalization_context, prefs)

\* the results of a list without their scores: who is in it and in which order
Membership(results) ==
  [i \in 1..Len(results) |->
     [f \in DOMAIN results[i] \ {"score", "relevance_factors"} |->
        results[i][f]]]

\* C18: a second pass of the fuser over the results of the first does not
\* remove, add or reorder any result
C18_SecondPassKeepsOrder ==
  Searched =>
    Membership(FuserPass(last.out.personalized_results, last.query,
                         last.prefs))
      = Membership(last.out.personalized_results)

\* two maps of factors that differ in the factor f only, the first having
\* the larger value
LargerIn(f, factors, others) ==
  /\ DOMAIN factors = DOMAIN others
  /\ f \in DOMAIN factors
  /\ factors[f] > others[f]
  /\ \A g \in DOMAIN factors \ {f} : factors[g] = others[g]

RankedPairs == {<<1, 2>>, <<2, 1>>}

\* C19: of two results that differ in one relevance factor only (semantic
\* similarity, keyword or content relevance, metadata match, freshness), the
\* one with the larger factor never has the smaller composite score, in the
\* ranking of AdvancedSearchEngine and in that of AIEnhancedSearch
C19_ScoreIsMonotonic ==
  /\ last.op = "rank" =>
       \A p \in RankedPairs :
         \A f \in DOMAIN weights :
           LargerIn(f, last.ranked[p[1]].relevance_factors,
                    last.ranked[p[2]].relevance_factors)
             => last.ranked[p[1]].score >= last.ranked[p[2]].score
  /\ ai_last.op = "rank" =>
       \A p \in RankedPairs :
         \A f \in DOMAIN ai_last.ranked[1].ranking_factors :
           LargerIn(f, ai_last.ranked[p[1]].ranking_factors,
                    ai_last.ranked[p[2]].ranking_factors)
             => ai_last.ranked[p[1]].ai_score >= ai_last.ranked[p[2]].ai_score

\* _advanced_ranking has ranked a pair that differs in its keyword
\* similarity only, and the larger one has the larger score
C19_Witness ==
  /\ last.op = "rank"
  /\ LargerIn("keyword_similarity", last.ranked[1].relevance_factors,
              last.ranked[2].relevance_factors)
  /\ last.ranked[1].score > last.ranked[2].score

\* _advanced_ranking has ranked a pair that differs in its age only
C19_WitnessFreshness ==
  /\ last.op = "rank"
  /\ LargerIn("freshness", last.ranked[1].relevance_factors,
              last.ranked[2].relevance_factors)
  /\ last.ranked[1].score > last.ranked[2].score

\* _rank_results has ranked a pair that differs in its metadata match only
C19_WitnessMetadata ==
  /\ ai_last.op = "rank"
  /\ LargerIn("metadata_match", ai_last.ranked[1].ranking_factors,
              ai_last.ranked[2].ranking_factors)
  /\ ai_last.ranked[1].ai_score > ai_last.ranked[2].ai_score

\* _rank_results has ranked a pair that differs in its content relevance only
C19_WitnessContent ==
  /\ ai_last.op = "rank"
  /\ LargerIn("content_relevance", ai_last.ranked[1].ranking_factors,
              ai_last.ranked[2].ranking_factors)
  /\ ai_last.ranked[1].ai_score > ai_last.ranked[2].ai_score

CatalogIds == {content_items[i].id : i \in 1..Len(content_items)}

\* C20: get_recommendations(id, limit) returns the empty list, and does not
\* raise, whenever id is not the id of an item of the catalog, whatever the
\* limit
C20_UnknownIdIsEmpty ==
  (disc_last.op = "recommendations" /\ disc_last.content_id \notin CatalogIds)
    => disc_last.returned = <<>>

\* recommendations were asked for an unknown id, with a positive limit, of a
\* catalog in which a known id has recommendations
C20_Witness ==
  /\ disc_last.op = "recommendations"
  /\ disc_last.content_id \notin CatalogIds
  /\ disc_last.limit > 0
  /\ \E id \in CatalogIds :
       GetRecommendationsResult(content_items, content_graph, id,
                                disc_last.limit) # <<>>

----------------------------------------------------------------------------
(* Claims about NetworkDocumentIngestion *)

Scanned == ingest_last.op = "scan" /\ ~ingest_last.raised

\* the documents a scan returned for the file of this name
ReturnedFor(filename) ==
  {i \in 1..Len(ingest_last.returned) :
     ingest_last.returned[i].filename = filename}

SupportedFile(file) == LowerSuffix(file.suffix) \in supported_extensions

\* C21: scan_source_directory over a tree with supported files and a file
\* larger than max_file_size_mb returns a non-empty list in which the
\* supported files are 'pending' and the over-size file is reported as
\* 'failed'; files of an unsupported extension are not listed
C21_ScanReportsOversize ==
  Scanned =>
    \A k \in 1..Len(ingest_last.tree.files) :
      LET file == ingest_last.tree.files[k]
      IN /\ ~SupportedFile(file) => ReturnedFor(file.filename) = {}
         /\ (SupportedFile(file) /\ file.stat_ok
               /\ file.size_mb <= MAX_FILE_SIZE_MB)
              => \E i \in ReturnedFor(file.filename) :
                   ingest_last.returned[i].processing_status = "pending"
         /\ (SupportedFile(file) /\ file.stat_ok
               /\ file.size_mb > MAX_FILE_SIZE_MB)
              => \E i \in ReturnedFor(file.filename) :
                   ingest_last.returned[i].processing_status = "failed"

Accounted ==
  processing_stats.processed_files + processing_stats.failed_files
    + processing_stats.skipped_files

\* C29: after any sequence of scan_source_directory and process_documents
\* calls the counters satisfy processed_files + failed_files + skipped_files
\* <= total_files, with equality once process_documents has returned
C29_CountersWithinTotal ==
  /\ Accounted <= processing_stats.total_files
  /\ ingest_last.op = "process"
       => ingest_last.statistics.processed_files
            + ingest_last.statistics.failed_files
            + ingest_last.statistics.skipped_files
          = ingest_last.statistics.total_files

\* the other half of C29: a document whose status reached 'completed' is
\* never changed to another status by a call that keeps the document list
C29_CompletedIsFinal ==
  [][\A i \in 1..Len(ingest_documents) :
       (/\ ingest_documents[i].processing_status = "completed"
        /\ ingest_last'.op = "process")
         => ingest_documents'[i].processing_status = "completed"]_vars

----------------------------------------------------------------------------
(* Claims about the query cache of AIEnhancedSearch *)

Enhanced == ai_last.op = "enhance"
CacheWasFull == Len(ai_last.before) >= ai_cache_size

\* the keys of the cache before the call that were inserted earliest
EarliestInserted ==
  {k \in CacheKeys(ai_last.before) :
     \A other \in CacheKeys(ai_last.before) :
       ai_last.before_inserted_at[k] <= ai_last.before_inserted_at[other]}

\* C22: the query cache never holds more entries than the configured
\* capacity, and the insertion of a new key into a full cache evicts exactly
\* one key, the one inserted earliest among those present
C22_CacheBoundedOldestEvicted ==
  /\ Len(query_cache) <= ai_cache_size
  /\ Cardinality(CacheKeys(query_cache)) = Len(query_cache)
  /\ (Enhanced /\ CacheWasFull
        /\ ai_last.query \notin CacheKeys(ai_last.before))
       => \E k \in EarliestInserted :
            /\ EarliestInserted = {k}
            /\ CacheKeys(query_cache)
                 = (CacheKeys(ai_last.before) \ {k}) \cup {ai_last.query}

\* a new key was inserted into a full cache of more than one key
C22_Witness ==
  /\ Enhanced /\ CacheWasFull
  /\ ai_last.query \notin CacheKeys(ai_last.before)
  /\ Len(ai_last.before) > 1
  /\ Len(query_cache) = ai_cache_size

\* C28: re-enhancing a query whose key is present in a full cache replaces
\* that entry in place: no other key is evicted, the cached keys are the same
C28_ReplaceKeepsKeys ==
  (Enhanced /\ CacheWasFull /\ ai_last.query \in CacheKeys(ai_last.before))
    => CacheKeys(query_cache) = CacheKeys(ai_last.before)

----------------------------------------------------------------------------
(* Claims about the order of the steps of a search *)

\* C23: the filter step precedes truncation: the returned results are the
\* first max_results of the ranked candidates that pass the filters, so a
\* candidate that passes is not missing because candidates that fail the
\* filters ranked above it
C23_FilterBeforeTruncation ==
  ai_last.op = "intelligent_search" =>
    ai_last.out.results =
      Slice(IF DOMAIN ai_last.filters = {} THEN ai_last.out.ranked_results
            ELSE AIApplyFilters(ai_last.out.ranked_results, ai_last.filters),
            0, AI_MAX_RESULTS)

----------------------------------------------------------------------------
(* Claims about the similarity scores *)

\* C24: every similarity score lies in [0, 1]: the score of a semantic
\* result is 1 - distance clamped into [0, 1] whatever the distance, and the
\* coherence_score of every cluster lies in [0, 1]
C24_ScoresInUnitInterval ==
  /\ Searched =>
       \A i \in 1..Len(last.out.semantic_results) :
         /\ last.out.semantic_results[i].score >= 0
         /\ last.out.semantic_results[i].score <= 1000
  /\ \A c \in 1..Len(clusters) :
       /\ clusters[c].coherence_score >= 0
       /\ clusters[c].coherence_score <= 1000

----------------------------------------------------------------------------
(* Claims about the clusters *)

\* the members of a cluster of the engine, in the order of the cluster
MembersOf(cluster) ==
  [m \in 1..Len(cluster.content_items) |->
     content_items[CHOOSE i \in 1..Len(content_items) :
                     content_items[i].id = cluster.content_items[m]]]

\* C25: the centroid content of a cluster is the content of the member whose
\* own embedding is closest, in Euclidean distance, to the final centre of
\* the cluster (of one of them when several are equally close)
C25_CentroidIsClosestMember ==
  \A c \in 1..Len(clusters) :
    \E m \in 1..Len(MembersOf(clusters[c])) :
      /\ clusters[c].centroid = MembersOf(clusters[c])[m].content
      /\ \A o \in 1..Len(MembersOf(clusters[c])) :
           Closeness(MembersOf(clusters[c])[o].content, MembersOf(clusters[c]))
             <= Closeness(MembersOf(clusters[c])[m].content,
                          MembersOf(clusters[c]))

\* the unordered pairs of the positions 1..n
UnorderedPairs(n) == {p \in (1..n) \X (1..n) : p[1] < p[2]}

\* C26: the coherence_score of a cluster of a single member is exactly 1.0,
\* and that of any other cluster is the mean, over the unordered pairs of its
\* members, of the cosine similarity of the two members' own embeddings
C26_CoherenceIsMeanPairSimilarity ==
  \A c \in 1..Len(clusters) :
    LET members == MembersOf(clusters[c])
        pairs == UnorderedPairs(Len(members))
    IN IF Len(members) = 1
       THEN clusters[c].coherence_score = 1000
       ELSE clusters[c].coherence_score
              = SetSum(pairs,
                       [p \in pairs |->
                          CosineSimilarity(members[p[1]].content,
                                           members[p[2]].content)])
                  \div Cardinality(pairs)

\* an engine with a cluster of one member next to a cluster of three that
\* are not the first three items of the catalog
C26_Witness ==
  /\ discovery_engine
  /\ \E c \in 1..Len(clusters) : clusters[c].size = 1
  /\ \E c \in 1..Len(clusters) :
       /\ clusters[c].size >= 3
       /\ clusters[c].content_items[1] # content_items[1].id
       /\ clusters[c].coherence_score < 1000

----------------------------------------------------------------------------
(* Concurrent searches on one AdvancedSearchEngine.  The engine holds no
   lock: a thread can be preempted between any two statements of
   _record_search, and between the evaluation of the slice
   self.search_history[-1000:] and its assignment to self.search_history. *)

\* threads searching concurrently in SpecConc
MaxRecorders == 2
Threads == 1..MaxRecorders

\* the record an earlier search over the empty installation left, `age`
\* ticks before the clock of the model starts
PastRecord(query, age) ==
  [timestamp |-> -age, query |-> query.text, filters |-> query.filters,
   analytics |-> SearchCall(query, <<>>, <<>>, NoFailure, <<>>).analytics]

\* the history after n earlier searches, n at most the cap
PastHistory(query, n) == [k \in 1..n |-> PastRecord(query, n + 1 - k)]
PastLengths == {0, HISTORY_CAP - 1, HISTORY_CAP}

\* search() up to _record_search and the search_record it builds
SearchSteps(t, query) ==
  LET out == SearchCall(query, data_dir, vector_db, NoFailure,
                        user_preferences)
  IN /\ recorders[t].pc = "idle"
     /\ ~out.raised
     /\ recorders' =
          [recorders EXCEPT ![t] =
             [pc |-> "append",
              search_record |-> [timestamp |-> clock, query |-> query.text,
                                 filters |-> query.filters,
                                 analytics |-> out.analytics]]]
     /\ clock' = clock + 1
     /\ UNCHANGED <<data_dir, vector_db, search_history, user_preferences,
                    last, inflight>>
     /\ UNCHANGED <<aiVars, discVars, opsVars, managerVars>>

\* self.search_history.append(search_record)
RecordAppend(t) ==
  /\ recorders[t].pc = "append"
  /\ search_history' = Append(search_history, recorders[t].search_record)
  /\ recorders' = [recorders EXCEPT ![t].pc = "check"]
  /\ UNCHANGED <<data_dir, vector_db, user_preferences, clock, last, inflight>>
  /\ UNCHANGED <<aiVars, discVars, opsVars, managerVars>>

\* if len(self.search_history) > 1000
RecordCheck(t) ==
  /\ recorders[t].pc = "check"
  /\ recorders' =
       [recorders EXCEPT ![t].pc =
          IF Len(search_history) > HISTORY_CAP THEN "slice" ELSE "done"]
  /\ UNCHANGED <<searchVars, aiVars, discVars, opsVars, managerVars>>

\* the right-hand side self.search_history[-1000:], a new list
RecordSlice(t) ==
  /\ recorders[t].pc = "slice"
  /\ recorders' =
       [recorders EXCEPT ![t] =
          [pc |-> "store", search_record |-> recorders[t].search_record,
           sliced |-> LastN(search_history, HISTORY_CAP)]]
  /\ UNCHANGED <<searchVars, aiVars, discVars, opsVars, managerVars>>

\* self.search_history = <the new list>
RecordStore(t) ==
  /\ recorders[t].pc = "store"
  /\ search_history' = recorders[t].sliced
  /\ recorders' =
       [recorders EXCEPT ![t] =
          [pc |-> "done", search_record |-> recorders[t].search_record]]
  /\ UNCHANGED <<data_dir, vector_db, user_preferences, clock, last, inflight>>
  /\ UNCHANGED <<aiVars, discVars, opsVars, managerVars>>

\* an engine over the empty installation that has served n searches, with
\* one thread per concurrent search about to call search()
InitConc ==
  /\ data_dir = <<>> /\ vector_db = <<>>
  /\ \E query \in HistQueries, n \in PastLengths :
       search_history = PastHistory(query, n)
  /\ user_preferences = <<>>
  /\ clock = 0
  /\ last = NoCall
  /\ inflight = Idle
  /\ InitAI /\ InitDisc /\ InitOps /\ InitNoManager
  /\ recorders = [t \in Threads |-> Idle]

NextConc ==
  \/ \E t \in Threads, query \in HistQueries : SearchSteps(t, query)
  \/ \E t \in Threads : RecordAppend(t)
  \/ \E t \in Threads : RecordCheck(t)
  \/ \E t \in Threads : RecordSlice(t)
  \/ \E t \in Threads : RecordStore(t)

SpecConc == InitConc /\ [][NextConc]_vars

\* every concurrent search has completed
AllRecorded ==
  /\ recorders # <<>>
  /\ \A t \in Threads : recorders[t].pc = "done"

\* C27: once the concurrent searches have all completed, each of them has
\* exactly one record in the search history, however their append and
\* truncate steps interleaved (their records are the newest, so none of them
\* is among the oldest that the bound of 1000 evicts)
C27_NoRecordLost ==
  AllRecorded =>
    \A t \in Threads :
      Cardinality({i \in 1..Len(search_history) :
                     search_history[i] = recorders[t].search_record}) = 1

----------------------------------------------------------------------------
(* ProductionManager.  processes[name] is "absent" while name is not a key of
   self.processes, and service_statuses[name].status is "none" while name is
   not a key of self.service_statuses.  The services are of type fastapi, as
   those of the default configuration are. *)

MAX_RESTARTS == 3   \* ServiceConfig.max_restarts: int = 3

\* iterations of the monitoring loop per behaviour of SpecMon
MaxMonitorIterations == 4

\* ServiceConfig(...) with the defaults of the dataclass
ServiceConfig(has_health_check_url, auto_restart, max_restarts) ==
  [type |-> "fastapi", health_check_url |-> has_health_check_url,
   auto_restart |-> auto_restart, max_restarts |-> max_restarts]

\* _create_default_config
ServiceNames == {"search-discovery-api", "rag-api", "analytics-api"}
DefaultServices ==
  [name \in ServiceNames |-> ServiceConfig(TRUE, TRUE, MAX_RESTARTS)]

\* the services.yaml that _save_configuration wrote, edited to allow one
\* restart of the first service, none of the second, and to drop the
\* health_check_url of the third
YamlServices ==
  [name \in ServiceNames |->
     CASE name = "search-discovery-api" -> ServiceConfig(TRUE, TRUE, 1)
       [] name = "rag-api" -> ServiceConfig(TRUE, FALSE, MAX_RESTARTS)
       [] OTHER -> ServiceConfig(FALSE, TRUE, MAX_RESTARTS)]

\* what happens when a process is launched: it is running after the two
\* seconds, it has exited by then, or it is not launched (the port is in use
\* or Popen raises)
StartOutcomes == {"running", "exited", "not_launched"}

\* what one iteration of the loop finds of one service: whether its process
\* has exited, whether its health check passes, and how a launch turns out
ServiceEvents ==
  { [exited |-> FALSE, healthy |-> TRUE, start |-> "running"],
    [exited |-> FALSE, healthy |-> FALSE, start |-> "running"],
    [exited |-> FALSE, healthy |-> FALSE, start |-> "not_launched"],
    [exited |-> FALSE, healthy |-> FALSE, start |-> "exited"],
    [exited |-> TRUE, healthy |-> FALSE, start |-> "running"] }

\* _update_service_status: the first call creates the ServiceStatus with
\* restart_count=0, a later one sets its status
UpdateServiceStatus(service_status, status) ==
  IF service_status.status = "none"
  THEN [status |-> status, restart_count |-> 0]
  ELSE [service_status EXCEPT !.status = status]

\* start_service of one service, over its process and its ServiceStatus
StartService(sv, outcome) ==
  CASE outcome = "not_launched" ->
         [process |-> sv.process, service_status |-> sv.service_status,
          ok |-> FALSE]
    [] outcome = "running" ->
         [process |-> "alive",
          service_status |->
            UpdateServiceStatus(UpdateServiceStatus(sv.service_status,
                                                    "starting"), "running"),
          ok |-> TRUE]
    [] OTHER ->
         [process |-> "exited",
          service_status |->
            UpdateServiceStatus(UpdateServiceStatus(sv.service_status,
                                                    "starting"), "error"),
          ok |-> FALSE]

\* stop_service of one service
StopService(sv) ==
  IF sv.process # "absent"
  THEN [process |-> "absent",
        service_status |-> UpdateServiceStatus(sv.service_status, "stopped"),
        ok |-> TRUE]
  ELSE [process |-> sv.process, service_status |-> sv.service_status,
        ok |-> FALSE]

\* restart_service: start_service when stop_service succeeds
RestartService(sv, outcome) ==
  LET stopped == StopService(sv)
  IN IF stopped.ok THEN StartService(stopped, outcome) ELSE stopped

\* _update_all_service_statuses, for one service
UpdateStatusOf(sv, exited) ==
  LET process == IF sv.process = "alive" /\ exited THEN "exited"
                 ELSE sv.process
  IN [process |-> process,
      service_status |->
        IF process = "absent" THEN sv.service_status
        ELSE UpdateServiceStatus(sv.service_status,
                                 IF process = "alive" THEN "running"
                                 ELSE "stopped")]

\* health_check_all_services, for one service
HealthCheck(service, event) ==
  IF service.health_check_url THEN event.healthy ELSE TRUE

\* the body of the loop of start_monitoring, for one service
MonitorService(service, sv, event) ==
  LET updated == UpdateStatusOf(sv, event.exited)
      is_healthy == HealthCheck(service, event)
  IN IF ~is_healthy /\ service.auto_restart
     THEN RestartService(updated, event.start)
     ELSE [process |-> updated.process,
           service_status |-> updated.service_status, ok |-> FALSE]

\* main(): manager.start_all_services()
StartAllServices(outcomes) ==
  LET Started(name) ==
        StartService([process |-> processes[name],
                      service_status |-> service_statuses[name]],
                     outcomes[name])
  IN /\ main_pc = "start_all"
     /\ processes' = [name \in DOMAIN services |-> Started(name).process]
     /\ service_statuses' =
          [name \in DOMAIN services |-> Started(name).service_status]
     /\ main_pc' = "start_monitoring"
     /\ UNCHANGED <<services, running, restarts>>
     /\ UNCHANGED <<searchVars, aiVars, discVars, opsVars, threadVars>>

\* start_monitoring up to its loop
StartMonitoring ==
  /\ main_pc = "start_monitoring"
  /\ running' = TRUE
  /\ main_pc' = "loop"
  /\ UNCHANGED <<services, service_statuses, processes, restarts>>
  /\ UNCHANGED <<searchVars, aiVars, discVars, opsVars, threadVars>>

\* one iteration of the loop of start_monitoring
MonitoringIteration(events) ==
  LET Monitored(name) ==
        MonitorService(services[name],
                       [process |-> processes[name],
                        service_status |-> service_statuses[name]],
                       events[name])
  IN /\ main_pc = "loop" /\ running
     /\ clock < MaxMonitorIterations
     /\ clock' = clock + 1
     /\ processes' = [name \in DOMAIN services |-> Monitored(name).process]
     /\ service_statuses' =
          [name \in DOMAIN services |-> Monitored(name).service_status]
     /\ restarts' =
          [name \in DOMAIN services |->
             restarts[name] + (IF Monitored(name).ok THEN 1 ELSE 0)]
     /\ UNCHANGED <<services, running, main_pc>>
     /\ UNCHANGED <<data_dir, vector_db, search_history, user_preferences,
                    last, inflight>>
     /\ UNCHANGED <<aiVars, discVars, opsVars, threadVars>>

\* _signal_handler: shutdown(), which stops every service, and sys.exit
SignalHandler ==
  LET Stopped(name) ==
        StopService([process |-> processes[name],
                     service_status |-> service_statuses[name]])
  IN /\ main_pc \in {"start_all", "start_monitoring", "loop"}
     /\ running' = FALSE
     /\ processes' = [name \in DOMAIN services |-> Stopped(name).process]
     /\ service_statuses' =
          [name \in DOMAIN services |-> Stopped(name).service_status]
     /\ main_pc' = "exit"
     /\ UNCHANGED <<services, restarts>>
     /\ UNCHANGED <<searchVars, aiVars, discVars, opsVars, threadVars>>

\* ProductionManager(): the services of the configuration, nothing started
InitManager ==
  /\ InitSearch /\ data_dir = <<>> /\ vector_db = <<>>
  /\ InitAI /\ InitDisc /\ InitOps /\ InitThreads
  /\ services \in {DefaultServices, YamlServices}
  /\ service_statuses =
       [name \in DOMAIN services |-> [status |-> "none", restart_count |-> 0]]
  /\ processes = [name \in DOMAIN services |-> "absent"]
  /\ running = FALSE
  /\ main_pc = "start_all"
  /\ restarts = [name \in DOMAIN services |-> 0]

NextMon ==
  \/ \E outcomes \in [ServiceNames -> StartOutcomes] :
       StartAllServices(outcomes)
  \/ StartMonitoring
  \/ \E events \in [ServiceNames -> ServiceEvents] :
       MonitoringIteration(events)
  \/ SignalHandler

SpecMon == InitManager /\ [][NextMon]_vars

\* C30: the monitoring loop never restarts a service more often than the
\* max_restarts of the service, however many health checks in a row fail
C30_RestartsWithinMax ==
  \A name \in DOMAIN services :
    restarts[name] <= services[name].max_restarts

====
